---- MODULE Spec2Model ----
(***************************************************************************)
(* A model of the usms client library: the meter's consumption caches and  *)
(* the fetch operations that fill them (services/meter.py,                 *)
(* services/sync/meter.py, services/async_/meter.py), and the session      *)
(* client with its hidden ASP state, login flow and expiry detection       *)
(* (core/client.py, core/auth.py, core/state_manager.py,                   *)
(* services/*/account.py).                                                 *)
(*                                                                         *)
(* Time is counted in minutes since midnight of 1 January of a common      *)
(* year, in the portal's timezone.  A consumption frame (a pandas          *)
(* DataFrame indexed by time with a value column and a last_checked        *)
(* column) is a function from timestamps to records [v, lc].               *)
(***************************************************************************)
EXTENDS Integers, Sequences, FiniteSets, TLC

VARIABLES
    kind,                 \* "sync" (USMSMeter/USMSClient) or "async" (AsyncUSMS...)
    now,                  \* datetime.now(tz=BRUNEI_TZ), in minutes
    hourly_consumptions,  \* BaseUSMSMeter.hourly_consumptions
    daily_consumptions,   \* BaseUSMSMeter.daily_consumptions
    last,                 \* the last meter operation: its inputs, what it saw and returned
    ops,                  \* number of operations performed so far
    asp_state,            \* USMSASPStateMixin._asp_state: hidden field name -> value
    auth,                 \* session.auth: "usms_auth", or "None" while disabled
    wire,                 \* the requests the last session operation sent, in order
    cres,                 \* the last session operation: its inputs and how it ended
    expired_run,          \* expired responses get/post received in a row
    portal_data,          \* the hourly data the portal holds: run of days, first hour label
    earliest_consumption_date,  \* BaseUSMSMeter.earliest_consumption_date
    finder,               \* find_earliest_consumption_date: its position and locals
    last_update,          \* BaseUSMSMeter.last_update: the portal's "last updated"
    last_refresh,         \* BaseUSMSMeter.last_refresh
    rlast,                \* the last refresh operation: what it saw and returned
    stores,               \* the _asp_state dict objects of the sessions
    cookies,              \* the cookie jar of each account's HTTP client
    caches,               \* hourly_consumptions of the meter each task fetches for
    tasks                 \* the concurrent fetches: position, exchange, state used

meterVars == <<now, hourly_consumptions, daily_consumptions, last>>

clientVars == <<asp_state, auth, wire, cres, expired_run>>

\* the state only the operations below the fetches and the session touch
finderVars == <<portal_data, earliest_consumption_date, finder>>

infoVars == <<last_update, last_refresh, rlast>>

sessionVars == <<stores, cookies, caches, tasks>>

moreVars == <<finderVars, infoVars, sessionVars>>

vars == <<kind, ops, meterVars, clientVars, moreVars>>

----------------------------------------------------------------------------
(* Bounds of the model *)

\* operations per behaviour
MaxOps == 3

\* the older of the two requested days lies OldDays days beyond the
\* staleness cutoff
OldDays == 4

----------------------------------------------------------------------------
(* Time and calendar *)

MinutesPerHour == 60

MinutesPerDay == 1440

\* timedelta(seconds=60 * 15), in minutes
refresh_interval == 15

\* timedelta(days=3): the hourly staleness cutoff
HourlyCutoffDays == 3

\* timedelta(days=34): the daily staleness cutoff
DailyCutoffDays == 34

\* a missing value of a pandas frame (NaN)
NaN == -1

MonthDays == <<31, 28, 31, 30, 31, 30, 31, 31, 30, 31, 30, 31>>

RECURSIVE DaysBefore(_)
DaysBefore(m) == IF m = 1 THEN 0 ELSE DaysBefore(m - 1) + MonthDays[m - 1]

\* datetime.date(): the day number of a timestamp
DayOf(t) == t \div MinutesPerDay

\* datetime.month of a timestamp
MonthOf(t) ==
    CHOOSE m \in 1..12 :
        /\ DaysBefore(m) <= DayOf(t)
        /\ DayOf(t) < DaysBefore(m) + MonthDays[m]

\* sanitize_date: the requested datetime with its time of day stripped
sanitize_date(date) == DayOf(date) * MinutesPerDay

SetMin(S) == CHOOSE x \in S : \A y \in S : x <= y

SetMax(S) == CHOOSE x \in S : \A y \in S : x >= y

----------------------------------------------------------------------------
(* Frames *)

\* new_consumptions_dataframe: a frame with no rows
EmptyFrame == [t \in {} |-> [v |-> NaN, lc |-> 0]]

Restrict(frame, S) == [t \in S |-> frame[t]]

\* frame[unit]: the value column of a frame, a Series
ValueColumn(frame) == [t \in DOMAIN frame |-> frame[t].v]

\* frame["last_checked"].min()
MinLastChecked(frame) == SetMin({frame[t].lc : t \in DOMAIN frame})

\* DataFrame.asfreq: reindex on the full range from the first to the last
\* timestamp in steps of `step`; the timestamps filled in hold NaN
asfreq(series, step) ==
    IF DOMAIN series = {} THEN series
    ELSE LET lo == SetMin(DOMAIN series)
             hi == SetMax(DOMAIN series)
             idx == {lo + k * step : k \in 0..((hi - lo) \div step)}
         IN  [t \in idx |-> IF t \in DOMAIN series THEN series[t] ELSE NaN]

\* frame["last_checked"] = datetime.now(): every row is stamped
Stamp(series, t_now) == [t \in DOMAIN series |-> [v |-> series[t], lc |-> t_now]]

\* a mutant of combine_first: the cache is replaced by the fetched frame
combine_first_replace(fetched, cache) == fetched

\* a mutant of combine_first: the operands swapped, the cached value wins
combine_first_swapped(fetched, cache) ==
    [t \in DOMAIN fetched \cup DOMAIN cache |->
        IF t \in DOMAIN cache THEN cache[t] ELSE fetched[t]]

\* fetched.combine_first(cache): the union of the two indexes; per column the
\* fetched value where it is not null, the cached value otherwise
combine_first(fetched, cache) ==
    [t \in DOMAIN fetched \cup DOMAIN cache |->
        IF t \in DOMAIN fetched
        THEN [v  |-> IF fetched[t].v # NaN THEN fetched[t].v
                     ELSE IF t \in DOMAIN cache THEN cache[t].v ELSE NaN,
              lc |-> fetched[t].lc]
        ELSE cache[t]]

----------------------------------------------------------------------------
(* The freshness check *)

\* a mutant of get_hourly_consumptions: the staleness cutoff is ignored
get_hourly_consumptions_nocutoff(cache, date, t_now) ==
    LET day_consumption ==
            Restrict(cache, {t \in DOMAIN cache : DayOf(t) = DayOf(date)})
    IN  IF /\ DOMAIN day_consumption # {}
           /\ t_now - MinLastChecked(day_consumption) < refresh_interval
        THEN day_consumption
        ELSE EmptyFrame

\* BaseUSMSMeter.get_hourly_consumptions: the cached rows of the day of `date`
\* when they may be used, no rows otherwise
get_hourly_consumptions(cache, date, t_now) ==
    LET day_consumption ==
            Restrict(cache, {t \in DOMAIN cache : DayOf(t) = DayOf(date)})
    IN  IF /\ DOMAIN day_consumption # {}
           /\ \/ t_now - MinLastChecked(day_consumption) < refresh_interval
              \/ t_now - date > HourlyCutoffDays * MinutesPerDay
        THEN day_consumption
        ELSE EmptyFrame

\* BaseUSMSMeter.get_daily_consumptions: the cached rows of the month of `date`
\* when they may be used, no rows otherwise
get_daily_consumptions(cache, date, t_now) ==
    LET month_consumption ==
            Restrict(cache, {t \in DOMAIN cache : MonthOf(t) = MonthOf(date)})
    IN  IF /\ DOMAIN month_consumption # {}
           /\ \/ t_now - MinLastChecked(month_consumption) < refresh_interval
              \/ t_now - date > DailyCutoffDays * MinutesPerDay
        THEN month_consumption
        ELSE EmptyFrame

----------------------------------------------------------------------------
(* Inputs of the fetch operations *)

\* the consumption values a report row may carry: two suffice to tell a
\* cached value from a fetched one
Values == {1, 2}

\* the hours the report rows of a response may name
RowHours == {0, 2}

\* the days of the requested month the report rows of a response may name,
\* counted from the first of the month
RowDays == {0, 2}

\* parse_hourly_consumptions' result: hour -> consumption
HourlyRows == UNION {[H -> Values] : H \in SUBSET RowHours}

\* parse_daily_consumptions' result: day -> consumption
DailyRows == UNION {[D -> Values] : D \in SUBSET RowDays}

\* What the portal does to one fetch: raise_at = k > 0 when the k-th exchange
\* raises (a network error, or raise_for_status), raise_at = n + 1 when the
\* parse of the data-bearing response raises, and raise_at = 0 when the
\* response parses to `rows`.
Outcomes(rows, n) ==
    {[raise_at |-> k, rows |-> << >>] : k \in 1..(n + 1)}
        \cup {[raise_at |-> 0, rows |-> r] : r \in rows}

\* the exchanges of fetch_hourly_consumptions: GET, POST, POST
HourlyExchanges == 3

\* the exchanges of fetch_daily_consumptions: GET, POST, POST, POST
DailyExchanges == 4

\* the instant the behaviours start: 5 March, 10:00
StartNow == (DaysBefore(3) + 4) * MinutesPerDay + 10 * MinutesPerHour

\* the datetimes a caller asks hourly data for: now and a day past the cutoff
HourlyDates == {now, now - (HourlyCutoffDays + OldDays) * MinutesPerDay}

\* the datetimes a caller asks daily data for: now and a day past the cutoff
DailyDates == {now, now - (DailyCutoffDays + OldDays) * MinutesPerDay}

\* the first instant of the month of `date`
MonthStart(date) == DaysBefore(MonthOf(date)) * MinutesPerDay

----------------------------------------------------------------------------
(* The meter's operations *)

\* a mutant of FetchRequests: the daily fetch makes the three exchanges of the
\* hourly fetch
FetchRequestsAlike(op) ==
    <<[method |-> "GET", data |-> "none"], [method |-> "POST", data |-> "payload"],
      [method |-> "POST", data |-> "payload"]>>

\* the exchanges a fetch makes on /Report/UsageHistory when it goes to the
\* portal, in order; the response to the last one is parsed
FetchRequests(op) ==
    IF op = "fetch_hourly"
    THEN <<[method |-> "GET", data |-> "none"],
           [method |-> "POST", data |-> "payload"],
           [method |-> "POST", data |-> "payload"]>>
    ELSE <<[method |-> "GET", data |-> "none"],
           [method |-> "POST", data |-> "none"],
           [method |-> "POST", data |-> "payload"],
           [method |-> "POST", data |-> "payload"]>>

\* what an operation of the meter saw and did; sent holds the exchanges it made
Done(op, date, hit, exchanges, raised, fetched, result) ==
    [op |-> op, date |-> date, hit |-> hit, exchanges |-> exchanges,
     sent |-> [i \in 1..(IF exchanges < Len(FetchRequests(op))
                         THEN exchanges ELSE Len(FetchRequests(op))) |->
                  FetchRequests(op)[i]],
     raised |-> raised, fetched |-> fetched, result |-> result,
     pre_h |-> hourly_consumptions, pre_d |-> daily_consumptions, at |-> now]

\* the index fetch_hourly_consumptions of a meter of kind k gives the row of
\* hour `hour`: date + timedelta(hours=hour) in USMSMeter,
\* date + timedelta(hours=hour - 1) in AsyncUSMSMeter
HourIndexOf(k, date, hour) ==
    IF k = "sync" THEN date + hour * MinutesPerHour
    ELSE date + (hour - 1) * MinutesPerHour

\* the index the meter of the behaviour gives the row of hour `hour`
HourIndex(date, hour) == HourIndexOf(kind, date, hour)

\* USMSMeter.fetch_hourly_consumptions / AsyncUSMSMeter.fetch_hourly_consumptions
FetchHourly(date_in, outcome) ==
    LET date == sanitize_date(date_in)
        day_consumption == get_hourly_consumptions(hourly_consumptions, date, now)
        rows == outcome.rows
        series == [t \in {HourIndex(date, h) : h \in DOMAIN rows} |->
                      rows[CHOOSE h \in DOMAIN rows : HourIndex(date, h) = t]]
        fetched == Stamp(asfreq(series, MinutesPerHour), now)
    IN  /\ ops < MaxOps
        /\ ops' = ops + 1
        /\ UNCHANGED <<kind, moreVars, now, daily_consumptions, clientVars>>
        /\ IF DOMAIN day_consumption # {}
           THEN /\ last' = Done("fetch_hourly", date, TRUE, 0, "none", EmptyFrame,
                                ValueColumn(day_consumption))
                /\ UNCHANGED hourly_consumptions
           ELSE IF outcome.raise_at > 0
           THEN /\ last' = Done("fetch_hourly", date, FALSE,
                                IF outcome.raise_at > HourlyExchanges
                                THEN HourlyExchanges ELSE outcome.raise_at,
                                IF outcome.raise_at > HourlyExchanges
                                THEN "ParseError" ELSE "HTTPError",
                                EmptyFrame, ValueColumn(EmptyFrame))
                /\ UNCHANGED hourly_consumptions
           ELSE /\ last' = Done("fetch_hourly", date, FALSE, HourlyExchanges, "none",
                                fetched, ValueColumn(fetched))
                /\ hourly_consumptions' =
                       IF DOMAIN fetched = {} THEN hourly_consumptions
                       ELSE combine_first(fetched, hourly_consumptions)

\* USMSMeter.fetch_daily_consumptions / AsyncUSMSMeter.fetch_daily_consumptions
FetchDaily(date_in, outcome) ==
    LET date == sanitize_date(date_in)
        month_consumption == get_daily_consumptions(daily_consumptions, date, now)
        rows == outcome.rows
        series == [t \in {MonthStart(date) + d * MinutesPerDay : d \in DOMAIN rows} |->
                      rows[(t - MonthStart(date)) \div MinutesPerDay]]
        fetched == Stamp(asfreq(series, MinutesPerDay), now)
    IN  /\ ops < MaxOps
        /\ ops' = ops + 1
        /\ UNCHANGED <<kind, moreVars, now, hourly_consumptions, clientVars>>
        /\ IF DOMAIN month_consumption # {}
           THEN /\ last' = Done("fetch_daily", date, TRUE, 0, "none", EmptyFrame,
                                ValueColumn(month_consumption))
                /\ UNCHANGED daily_consumptions
           ELSE IF outcome.raise_at > 0
           THEN /\ last' = Done("fetch_daily", date, FALSE,
                                IF outcome.raise_at > DailyExchanges
                                THEN DailyExchanges ELSE outcome.raise_at,
                                IF outcome.raise_at > DailyExchanges
                                THEN "ParseError" ELSE "HTTPError",
                                EmptyFrame, ValueColumn(EmptyFrame))
                /\ UNCHANGED daily_consumptions
           ELSE /\ last' = Done("fetch_daily", date, FALSE, DailyExchanges, "none",
                                fetched, ValueColumn(fetched))
                /\ daily_consumptions' =
                       IF DOMAIN fetched = {} THEN daily_consumptions
                       ELSE combine_first(fetched, daily_consumptions)

\* fetch_hourly_consumptions(date_in) on a USMSMeter and on an AsyncUSMSMeter,
\* both with an empty cache, at the same instant and with the same report
\* `rows` from the portal: what each returns and the cache each is left with
FetchBoth(date_in, rows) ==
    LET date == sanitize_date(date_in)
        series(k) == [t \in {HourIndexOf(k, date, h) : h \in DOMAIN rows} |->
                         rows[CHOOSE h \in DOMAIN rows : HourIndexOf(k, date, h) = t]]
        fetched(k) == Stamp(asfreq(series(k), MinutesPerHour), now)
        ended(k) == [result |-> ValueColumn(fetched(k)),
                     cache |-> IF DOMAIN fetched(k) = {} THEN EmptyFrame
                               ELSE combine_first(fetched(k), EmptyFrame)]
    IN  /\ cres' = [op |-> "fetch_both", date |-> date, rows |-> rows,
                    raised |-> "none",
                    sync |-> ended("sync"), async |-> ended("async")]
        /\ UNCHANGED <<kind, ops, moreVars, meterVars, asp_state, auth, wire,
                       expired_run>>

\* the clock advances between two operations
Tick(d) ==
    /\ ops < MaxOps
    /\ ops' = ops + 1
    /\ now' = now + d
    /\ last' = Done("tick", now, FALSE, 0, "none", EmptyFrame, ValueColumn(EmptyFrame))
    /\ UNCHANGED <<kind, moreVars, hourly_consumptions, daily_consumptions, clientVars>>

\* the steps of the clock: just under and exactly the refresh interval
TickSteps == {refresh_interval - 1, refresh_interval}

\* BaseUSMSMeter.initialize: both caches empty
InitMeter ==
    /\ now = StartNow
    /\ hourly_consumptions = EmptyFrame
    /\ daily_consumptions = EmptyFrame
    /\ last = [op |-> "init", date |-> 0, hit |-> FALSE, exchanges |-> 0,
               sent |-> << >>, raised |-> "none", fetched |-> EmptyFrame,
               result |-> ValueColumn(EmptyFrame),
               pre_h |-> EmptyFrame, pre_d |-> EmptyFrame, at |-> StartNow]

----------------------------------------------------------------------------
(* The earliest-date finder *)

\* the longest run of days the portal holds hourly data for
MaxRun == 3

\* calls of find_earliest_consumption_date per behaviour
MaxCalls == 2

\* earliest_consumption_date = None
NoDate == -1

\* the longest history, in days, the finder is timed on
MaxHistory == 64

\* the hour the portal's report labels the first row of a day with: reports
\* of hours 0..23 and of hours 1..24 both parse
FirstHours == {0, 1}

HoursPerDay == 24

\* datetime.day: the day of the month of a timestamp
DayOfMonth(t) == DayOf(t) - DaysBefore(MonthOf(t)) + 1

\* the rows parse_hourly_consumptions yields for the report of the day of
\* `date`: the first and the last hour of every day of the run, which ends
\* `lag` days before today
PortalRows(date) ==
    IF /\ DayOf(now) - portal_data.lag - portal_data.run < DayOf(date)
       /\ DayOf(date) <= DayOf(now) - portal_data.lag
    THEN [h \in {portal_data.first_hour, portal_data.first_hour + HoursPerDay - 1} |-> 1]
    ELSE << >>

\* USMSMeter.fetch_hourly_consumptions / AsyncUSMSMeter.fetch_hourly_consumptions
\* when every exchange succeeds and the report parses to `rows`: the cache
\* after the call, the series returned and the exchanges made
fetch_hourly_consumptions(cache, date_in, t_now, rows) ==
    LET date == sanitize_date(date_in)
        day_consumption == get_hourly_consumptions(cache, date, t_now)
        series == [t \in {HourIndex(date, h) : h \in DOMAIN rows} |->
                      rows[CHOOSE h \in DOMAIN rows : HourIndex(date, h) = t]]
        fetched == Stamp(asfreq(series, MinutesPerHour), t_now)
    IN  IF DOMAIN day_consumption # {}
        THEN [cache |-> cache, result |-> ValueColumn(day_consumption),
              exchanges |-> 0]
        ELSE IF DOMAIN fetched = {}
        THEN [cache |-> cache, result |-> ValueColumn(fetched),
              exchanges |-> HourlyExchanges]
        ELSE [cache |-> combine_first(fetched, cache),
              result |-> ValueColumn(fetched), exchanges |-> HourlyExchanges]

\* the locals of a call of find_earliest_consumption_date, with the date an
\* earlier call returned (returned): step is
\* timedelta(days=step) in minutes (1 is MinutesPerDay, 0.5 is 720), probes counts the calls of fetch_hourly_consumptions,
\* found and none hold the days whose probe returned data and no data
Finding(pc, date, step, i, probes, exchanges, from_empty, calls) ==
    [pc |-> pc, date |-> date, step |-> step, i |-> i, probes |-> probes,
     exchanges |-> exchanges, from_empty |-> from_empty, calls |-> calls,
     raised |-> "none", result |-> NoDate, returned |-> finder.returned,
     found |-> {}, none |-> {}]

\* the portal's report history is fixed before the finder runs
PortalHolds(n, h0, lag) ==
    /\ portal_data.run = 0
    /\ portal_data' = [run |-> n, first_hour |-> h0, lag |-> lag]
    /\ UNCHANGED <<kind, ops, meterVars, clientVars, earliest_consumption_date,
                   finder, infoVars, sessionVars>>

\* a mutant of StoreEarliest: the date found is returned but not kept
StoreNothing(previous, date) == previous

\* self.earliest_consumption_date = date
StoreEarliest(previous, date) == date

\* find_earliest_consumption_date, up to the first probe: the date cached on
\* the meter is returned; otherwise the search starts today (cache empty) or
\* at the earliest cached timestamp.  AsyncUSMSMeter first scans the last 5
\* days for a day with data.
FindCall ==
    LET today == DayOf(now) * MinutesPerDay
        empty == DOMAIN hourly_consumptions = {}
    IN  /\ portal_data.run > 0
        /\ finder.pc = "idle"
        /\ finder.calls < MaxCalls
        /\ finder' =
             IF earliest_consumption_date # NoDate
             THEN [Finding("idle", 0, 0, 0, 0, 0, empty, finder.calls + 1)
                      EXCEPT !.result = earliest_consumption_date]
             ELSE IF empty /\ kind = "async"
             THEN Finding("scan", today, MinutesPerDay, 0, 0, 0, empty,
                          finder.calls + 1)
             ELSE Finding("loop",
                          IF empty THEN today ELSE SetMin(DOMAIN hourly_consumptions),
                          MinutesPerDay, 0, 0, 0, empty, finder.calls + 1)
        /\ UNCHANGED <<kind, ops, meterVars, clientVars, portal_data,
                       earliest_consumption_date, infoVars, sessionVars>>

\* AsyncUSMSMeter.find_earliest_consumption_date, one round of
\* `for i in range(5)`: datetime(now.year, now.month, now.day - i) raises
\* ValueError when the day is not in the month
FindScan ==
    LET date == DayOf(now) * MinutesPerDay - finder.i * MinutesPerDay
        got == fetch_hourly_consumptions(hourly_consumptions, date, now,
                                          PortalRows(date))
    IN  /\ finder.pc = "scan"
        /\ IF DayOfMonth(now) - finder.i < 1
           THEN /\ finder' = [finder EXCEPT !.pc = "idle", !.raised = "ValueError"]
                /\ UNCHANGED hourly_consumptions
           ELSE /\ hourly_consumptions' = got.cache
                /\ finder' = [finder EXCEPT
                       !.pc = IF DOMAIN got.result # {} \/ finder.i = 4
                              THEN "loop" ELSE "scan",
                       !.date = date,
                       !.i = finder.i + 1,
                       !.probes = finder.probes + 1,
                       !.exchanges = finder.exchanges + got.exchanges,
                       !.found = IF DOMAIN got.result # {}
                                 THEN finder.found \cup {DayOf(date)}
                                 ELSE finder.found,
                       !.none = IF DOMAIN got.result # {} THEN finder.none
                                ELSE finder.none \cup {DayOf(date)}]
        /\ UNCHANGED <<kind, ops, now, daily_consumptions, last, clientVars,
                       portal_data, earliest_consumption_date, infoVars, sessionVars>>

\* a mutant of Doubled: the step is not increased
NotDoubled(step) == step

\* step *= 2
Doubled(step) == step * 2

\* find_earliest_consumption_date, one round of `while True`
FindProbe ==
    LET date == finder.date
        step == finder.step
        got == fetch_hourly_consumptions(hourly_consumptions, date, now,
                                          PortalRows(date))
        counted == [finder EXCEPT !.probes = finder.probes + 1,
                                  !.exchanges = finder.exchanges + got.exchanges,
                                  !.found = IF DOMAIN got.result # {}
                                            THEN finder.found \cup {DayOf(date)}
                                            ELSE finder.found,
                                  !.none = IF DOMAIN got.result # {}
                                           THEN finder.none
                                           ELSE finder.none \cup {DayOf(date)}]
    IN  /\ finder.pc = "loop"
        /\ hourly_consumptions' = got.cache
        /\ IF DOMAIN got.result # {}
           THEN \* step *= 2; date -= timedelta(days=step)
                /\ finder' = [counted EXCEPT !.step = Doubled(step),
                                             !.date = date - Doubled(step)]
                /\ UNCHANGED earliest_consumption_date
           ELSE IF step = MinutesPerDay
           THEN \* date += timedelta(days=step); the date is kept and returned
                /\ finder' = [counted EXCEPT !.pc = "idle", !.date = date + step,
                                             !.result = date + step,
                                             !.returned = date + step]
                /\ earliest_consumption_date' =
                       StoreEarliest(earliest_consumption_date, date + step)
           ELSE \* date += timedelta(days=step); step /= 4.  The search is
                \* followed as long as a quarter of the step is a whole
                \* number of minutes.
                /\ finder' = [counted EXCEPT
                       !.pc = IF step % 4 = 0 THEN "loop" ELSE "cut",
                       !.date = date + step,
                       !.step = step \div 4]
                /\ UNCHANGED earliest_consumption_date
        /\ UNCHANGED <<kind, ops, now, daily_consumptions, last, clientVars,
                       portal_data, infoVars, sessionVars>>

\* BaseUSMSMeter.initialize: no date found yet; the portal's history not yet
\* fixed
InitFinder ==
    /\ portal_data = [run |-> 0, first_hour |-> 0, lag |-> 0]
    /\ earliest_consumption_date = NoDate
    /\ finder = [pc |-> "idle", date |-> 0, step |-> 0, i |-> 0, probes |-> 0,
                 exchanges |-> 0, from_empty |-> TRUE, calls |-> 0,
                 raised |-> "none", result |-> NoDate, returned |-> NoDate,
                 found |-> {}, none |-> {}]

----------------------------------------------------------------------------
(* The refresh gate and the refresh operations *)

\* refresh operations per behaviour
MaxRefreshes == 3

\* timedelta(seconds=60 * 60), in minutes
update_interval == 60

\* a mutant of is_update_due: either threshold suffices
is_update_due_either(t_now, updated, refreshed) ==
    \/ t_now - updated > update_interval
    \/ t_now - refreshed > refresh_interval

\* BaseUSMSMeter.is_update_due
is_update_due(t_now, updated, refreshed) ==
    LET time_since_last_update == t_now - updated
        time_since_last_refresh == t_now - refreshed
    IN  IF time_since_last_update > update_interval
        THEN IF time_since_last_refresh > refresh_interval THEN TRUE ELSE FALSE
        ELSE FALSE

\* what a refresh operation saw and did; attempt_at is the time of the last
\* call of refresh_data, attempted tells whether this operation called it and
\* info is what its fetch_info met
Refreshed(op, raised, result, attempted) ==
    [op |-> op, raised |-> raised, result |-> result, at |-> now,
     pre_update |-> last_update, pre_refresh |-> last_refresh,
     attempt_at |-> IF attempted THEN now ELSE rlast.attempt_at,
     attempted |-> attempted,
     info |-> [raised |-> FALSE, last_update |-> NoDate],
     n |-> rlast.n + 1]

\* what fetch_info meets: an exchange or the parse of the info page raises, or
\* the page reports a "last updated" time: the stored one, an older one or
\* one of five minutes ago
InfoOutcomes ==
    {[raised |-> TRUE, last_update |-> 0],
     [raised |-> FALSE, last_update |-> last_update],
     [raised |-> FALSE, last_update |-> last_update - 1],
     [raised |-> FALSE, last_update |-> now - 5]}

\* a call of is_update_due
IsUpdateDue ==
    /\ rlast.n < MaxRefreshes
    /\ rlast' = Refreshed("is_update_due", "none",
                          is_update_due(now, last_update, last_refresh), FALSE)
    /\ UNCHANGED <<kind, ops, meterVars, clientVars, finderVars, sessionVars,
                   last_update, last_refresh>>

\* a mutant of refresh_data: the info fetched is taken over whatever its
\* last_update
refresh_data_takes_any(op, info) ==
    IF info.raised
    THEN /\ rlast' = [Refreshed(op, "none", FALSE, TRUE) EXCEPT !.info = info]
         /\ UNCHANGED <<last_update, last_refresh>>
    ELSE /\ last_refresh' = now
         /\ last_update' = info.last_update
         /\ rlast' = [Refreshed(op, "none", TRUE, TRUE) EXCEPT !.info = info]

\* the body of USMSMeter.refresh_data / AsyncUSMSMeter.refresh_data: a failed
\* fetch_info returns False at once; otherwise last_refresh is set and the
\* info is taken over when the portal's last_update is later
refresh_data(op, info) ==
    IF info.raised
    THEN /\ rlast' = [Refreshed(op, "none", FALSE, TRUE) EXCEPT !.info = info]
         /\ UNCHANGED <<last_update, last_refresh>>
    ELSE /\ last_refresh' = now
         /\ IF info.last_update > last_update
            THEN /\ last_update' = info.last_update
                 /\ rlast' = [Refreshed(op, "none", TRUE, TRUE) EXCEPT !.info = info]
            ELSE /\ UNCHANGED last_update
                 /\ rlast' = [Refreshed(op, "none", FALSE, TRUE) EXCEPT !.info = info]

\* USMSMeter.refresh_data / AsyncUSMSMeter.refresh_data
RefreshData(info) ==
    /\ rlast.n < MaxRefreshes
    /\ refresh_data("refresh_data", info)
    /\ UNCHANGED <<kind, ops, meterVars, clientVars, finderVars, sessionVars>>

\* USMSMeter.check_update_and_refresh / AsyncUSMSMeter.check_update_and_refresh
CheckUpdateAndRefresh(info) ==
    /\ rlast.n < MaxRefreshes
    /\ IF is_update_due(now, last_update, last_refresh)
       THEN refresh_data("check_update_and_refresh", info)
       ELSE /\ rlast' = Refreshed("check_update_and_refresh", "none", FALSE, FALSE)
            /\ UNCHANGED <<last_update, last_refresh>>
    /\ UNCHANGED <<kind, ops, meterVars, clientVars, finderVars, sessionVars>>

\* the minutes the clock advances between two refresh operations
RefreshTicks == {1, refresh_interval, update_interval}

\* fetch_info and BaseUSMSMeter.initialize: the portal reported an update an
\* hour before; last_refresh = last_update
InitInfo ==
    /\ last_update = StartNow - update_interval
    /\ last_refresh = last_update
    /\ rlast = [op |-> "init", raised |-> "none", result |-> FALSE, at |-> StartNow,
                pre_update |-> last_update, pre_refresh |-> last_update,
                attempt_at |-> NoDate, attempted |-> FALSE,
                info |-> [raised |-> FALSE, last_update |-> NoDate], n |-> 0]

----------------------------------------------------------------------------
(* Responses of the portal *)

\* the longest response body, in pieces of text
MaxBodyLen == 2

SessionExpireMarker == "SessionExpire"

ExpiredText == "Your Session Has Expired, Please Login Again."

\* bytes of a body that are not UTF-8
InvalidBytes == "<not UTF-8>"

\* the pieces a response body is made of: the two markers the expiry detector
\* looks for, any other text, and bytes that do not decode
BodyTokens == {SessionExpireMarker, ExpiredText, "text", InvalidBytes}

\* all bodies of at most n pieces
RECURSIVE BodiesUpTo(_)
BodiesUpTo(n) ==
    IF n = 0 THEN {<< >>}
    ELSE LET shorter == BodiesUpTo(n - 1)
         IN  shorter \cup {Append(b, tok) : b \in shorter, tok \in BodyTokens}

NoHidden == [k \in {} |-> ""]

\* the client raised before any response arrived (httpx.HTTPError)
NetworkError ==
    [status_code |-> 0, body |-> << >>, hidden |-> NoHidden, parsable |-> FALSE]

Response(status, body, hidden) ==
    [status_code |-> status, body |-> body, hidden |-> hidden, parsable |-> TRUE]

\* "marker in response_text"
Contains(text, marker) == \E i \in 1..Len(text) : text[i] = marker

\* a mutant of ReadBody: only the first piece of the body is read
ReadFirstChunk(response) ==
    IF response.body = << >> THEN << >> ELSE <<response.body[1]>>

\* response.read() / await response.aread(): the full body
ReadBody(response) == response.body

\* response_content.decode("utf-8") raises UnicodeDecodeError on bytes that are
\* not UTF-8
decode_raises(response) == Contains(ReadBody(response), InvalidBytes)

\* USMSClientAuthMixin._is_expired_sync, on a body that decodes
_is_expired_sync(response) ==
    LET response_text == ReadBody(response)
    IN  IF response.status_code = 302 /\ Contains(response_text, SessionExpireMarker)
        THEN TRUE
        ELSE IF /\ response.status_code = 200
                /\ Contains(response_text, ExpiredText)
        THEN TRUE
        ELSE FALSE

\* USMSClientAuthMixin._is_expired_async, on a body that decodes
_is_expired_async(response) ==
    LET response_text == ReadBody(response)
    IN  IF response.status_code = 302 /\ Contains(response_text, SessionExpireMarker)
        THEN TRUE
        ELSE IF /\ response.status_code = 200
                /\ Contains(response_text, ExpiredText)
        THEN TRUE
        ELSE FALSE

\* self.async_mode of the session's auth
async_mode == kind = "async"

PyBool(b) == IF b THEN "True" ELSE "False"

\* USMSClientAuthMixin.is_expired: in async mode the coroutine of
\* _is_expired_async is returned, not its result ("has to be awaited")
is_expired(response) ==
    IF async_mode THEN "coroutine" ELSE PyBool(_is_expired_sync(response))

\* Python's `not x`: only False (of the values here) is falsy
PyNot(x) == x = "False"

\* httpx's Response.raise_for_status: raises unless the status is 2xx
raise_for_status(response) ==
    ~(response.status_code >= 200 /\ response.status_code < 300)

----------------------------------------------------------------------------
(* The hidden ASP state *)

\* a mutant of _extract_asp_state: the store is replaced by the hidden inputs
\* of the response
_extract_asp_state_replace(store, response) ==
    IF ~response.parsable THEN store
    ELSE LET found == {k \in DOMAIN response.hidden : response.hidden[k] # ""}
         IN  [k \in found |-> response.hidden[k]]

\* USMSASPStateMixin._extract_asp_state, its effect on the store: every hidden
\* input with a non-empty value is written; a body that does not parse leaves
\* the store as it was
_extract_asp_state(store, response) ==
    IF ~response.parsable THEN store
    ELSE LET found == {k \in DOMAIN response.hidden : response.hidden[k] # ""}
         IN  [k \in DOMAIN store \cup found |->
                 IF k \in found THEN response.hidden[k] ELSE store[k]]

\* USMSASPStateMixin._extract_asp_state, its return value: the method has no
\* return statement
extract_returns(store, response) == "None"

\* a mutant of _inject_asp_state: the stored value replaces the caller's
_inject_asp_state_stored_wins(store, data) ==
    [k \in DOMAIN data \cup DOMAIN store |->
        IF k \in DOMAIN store THEN store[k] ELSE data[k]]

\* USMSASPStateMixin._inject_asp_state: the stored keys the caller did not set
\* are added to the caller's form data
_inject_asp_state(store, data) ==
    [k \in DOMAIN data \cup DOMAIN store |->
        IF k \in DOMAIN data THEN data[k] ELSE store[k]]

----------------------------------------------------------------------------
(* The session client *)

Request(method, url, data, auth_now) ==
    [method |-> method, url |-> url, data |-> data, auth |-> auth_now]

Ended(op, response, portal, raised, result) ==
    [op |-> op, response |-> response, portal |-> portal, raised |-> raised,
     result |-> result]

\* the login page and the login response a run of the login flow meets
NoPortal == [login_page |-> NetworkError, cookie |-> FALSE, history |-> << >>]

\* the run of expired responses after get/post received `response`
ExpiredRun(response) ==
    IF response # NetworkError /\ _is_expired_sync(response)
    THEN expired_run + 1 ELSE 0

\* USMSClient.get / AsyncUSMSClient.get
ClientGet(response) ==
    /\ ops < MaxOps
    /\ ops' = ops + 1
    /\ wire' = <<Request("GET", "page", NoHidden, auth)>>
    /\ expired_run' = ExpiredRun(response)
    /\ IF response = NetworkError
       THEN /\ cres' = Ended("get", response, NoPortal, "HTTPError", "none")
            /\ UNCHANGED asp_state
       ELSE IF raise_for_status(response)
       THEN /\ cres' = Ended("get", response, NoPortal, "HTTPStatusError", "none")
            /\ UNCHANGED asp_state
       ELSE /\ cres' = Ended("get", response, NoPortal, "none", "response")
            /\ asp_state' = _extract_asp_state(asp_state, response)
    /\ UNCHANGED <<kind, moreVars, auth, meterVars>>

\* USMSClient.post / AsyncUSMSClient.post
ClientPost(data, response) ==
    /\ ops < MaxOps
    /\ ops' = ops + 1
    /\ wire' = <<Request("POST", "page", _inject_asp_state(asp_state, data), auth)>>
    /\ expired_run' = ExpiredRun(response)
    /\ IF response = NetworkError
       THEN /\ cres' = Ended("post", response, NoPortal, "HTTPError", "none")
            /\ UNCHANGED asp_state
       ELSE IF raise_for_status(response)
       THEN /\ cres' = Ended("post", response, NoPortal, "HTTPStatusError", "none")
            /\ UNCHANGED asp_state
       ELSE /\ cres' = Ended("post", response, NoPortal, "none", "response")
            /\ asp_state' = _extract_asp_state(asp_state, response)
    /\ UNCHANGED <<kind, moreVars, auth, meterVars>>

----------------------------------------------------------------------------
(* The login flow *)

\* self._username, self._password
Username == "user"

Password == "secret"

\* a URL of the login response's redirect history: its query parameters
SigParams(url) == {i \in 1..Len(url) : url[i].name = "Sig"}

\* past_response_url.split("Sig=")[-1].split("&")[-1]: the text after the last
\* "&" that follows the last "Sig="
SigOfUrl(url) ==
    LET i == SetMax(SigParams(url))
    IN  IF i = Len(url) THEN url[i].value
        ELSE url[Len(url)].name \o "=" \o url[Len(url)].value

\* the loop over response.history: the first hop whose URL holds "Sig="
\* decides (break)
ExtractSig(history) ==
    LET hops == {i \in 1..Len(history) : SigParams(history[i]) # {}}
    IN  IF hops = {} THEN "None" ELSE SigOfUrl(history[SetMin(hops)])

\* the form of the login POST: the hidden state plus the three login fields
LoginForm(hidden) ==
    [k \in DOMAIN hidden \cup {"ASPxRoundPanel1$btnLogin",
                               "ASPxRoundPanel1$txtUsername",
                               "ASPxRoundPanel1$txtPassword"} |->
        IF k = "ASPxRoundPanel1$btnLogin" THEN "Login"
        ELSE IF k = "ASPxRoundPanel1$txtUsername" THEN Username
        ELSE IF k = "ASPxRoundPanel1$txtPassword" THEN Password
        ELSE hidden[k]]

LoginGet == Request("GET", "ResLogin", NoHidden, auth)

LoginPost(form) == Request("POST", "ResLogin", form, auth)

SessionGet(sig) ==
    Request("GET", "LoginSession.aspx",
            [k \in {"pLoginName", "Sig"} |-> IF k = "Sig" THEN sig ELSE Username],
            auth)

\* USMSClientAuthMixin._authenticate_sync / _authenticate_async, on a session
\* whose _extract_asp_state is USMSASPStateMixin's
Authenticate(portal) ==
    LET page == portal.login_page
        local == extract_returns(asp_state, page)
        sig == ExtractSig(portal.history)
    IN  /\ ops < MaxOps
        /\ ops' = ops + 1
        /\ UNCHANGED <<kind, moreVars, auth, expired_run, meterVars>>
        /\ IF page = NetworkError
           THEN /\ wire' = <<LoginGet>>
                /\ cres' = Ended("authenticate", page, portal, "HTTPError", "none")
                /\ UNCHANGED asp_state
           ELSE /\ asp_state' = _extract_asp_state(asp_state, page)
                /\ IF local = "None"
                   THEN \* asp_state["ASPxRoundPanel1$btnLogin"] = "Login" on None
                        /\ wire' = <<LoginGet>>
                        /\ cres' = Ended("authenticate", page, portal, "TypeError", "none")
                   ELSE IF ~portal.cookie
                   THEN \* self.client.cookies["ASP.NET_SessionId"]
                        /\ wire' = <<LoginGet, LoginPost(LoginForm(local))>>
                        /\ cres' = Ended("authenticate", page, portal, "KeyError", "none")
                   ELSE IF sig = "None"
                   THEN /\ wire' = <<LoginGet, LoginPost(LoginForm(local))>>
                        /\ cres' = Ended("authenticate", page, portal,
                                         "USMSLoginError", "none")
                   ELSE /\ wire' = <<LoginGet, LoginPost(LoginForm(local)),
                                     SessionGet(sig)>>
                        /\ cres' = Ended("authenticate", page, portal, "none", "None")

\* the most redirect hops of a login response
MaxHops == 2

\* the redirect histories of a login response: at most n hops, each a URL with
\* a Sig parameter (last or followed by another parameter) or without one
RECURSIVE SigHistories(_)
SigHistories(n) ==
    LET sig(v) == [name |-> "Sig", value |-> v]
        p == [name |-> "p", value |-> "1"]
        urls == {<<sig("s1")>>, <<sig("s2")>>, <<p>>, <<sig("s1"), p>>,
                 <<p, sig("s2")>>}
    IN  IF n = 0 THEN {<< >>}
        ELSE SigHistories(n - 1)
                 \cup {Append(h, u) : h \in SigHistories(n - 1), u \in urls}

\* the signature loop of _authenticate_sync / _authenticate_async run on the
\* redirect history of a login response
SigLoop(history) ==
    /\ ops = 0
    /\ ops' = 1
    /\ cres' = [op |-> "sig_loop", history |-> history, raised |-> "none",
                result |-> ExtractSig(history)]
    /\ UNCHANGED <<kind, moreVars, meterVars, asp_state, auth, wire, expired_run>>

----------------------------------------------------------------------------
(* The is_authenticated probe *)

\* a mutant of IsAuthenticated: the auth is restored at the end of the try
\* block, not in a finally block
IsAuthenticatedNoFinally(response) ==
    LET usms_auth == auth
        disabled == "None"
        raises == /\ response # NetworkError
                  /\ ~async_mode
                  /\ decode_raises(response)
    IN  /\ ops < MaxOps
        /\ ops' = ops + 1
        /\ wire' = <<Request("GET", "AccountInfo", NoHidden, disabled)>>
        /\ cres' = IF raises
                   THEN Ended("is_authenticated", response, NoPortal,
                              "UnicodeDecodeError", "none")
                   ELSE Ended("is_authenticated", response, NoPortal, "none",
                              IF response = NetworkError THEN "False"
                              ELSE PyBool(PyNot(is_expired(response))))
        /\ auth' = IF raises \/ response = NetworkError THEN disabled
                   ELSE usms_auth
        /\ UNCHANGED <<kind, moreVars, asp_state, expired_run, meterVars>>

\* USMSAccount.is_authenticated / AsyncUSMSAccount.is_authenticated: the
\* request is sent with session.auth = None; httpx.HTTPError is caught, what
\* the sync is_expired raises on a body that does not decode leaves the
\* method (the async is_expired is not awaited and reads nothing); the
\* finally block restores the auth on every path
IsAuthenticated(response) ==
    LET usms_auth == auth
        disabled == "None"
        raises == /\ response # NetworkError
                  /\ ~async_mode
                  /\ decode_raises(response)
    IN  /\ ops < MaxOps
        /\ ops' = ops + 1
        /\ wire' = <<Request("GET", "AccountInfo", NoHidden, disabled)>>
        /\ cres' = IF raises
                   THEN Ended("is_authenticated", response, NoPortal,
                              "UnicodeDecodeError", "none")
                   ELSE Ended("is_authenticated", response, NoPortal, "none",
                              IF response = NetworkError THEN "False"
                              ELSE PyBool(PyNot(is_expired(response))))
        /\ auth' = usms_auth
        /\ UNCHANGED <<kind, moreVars, asp_state, expired_run, meterVars>>

\* USMSAccount.log_in / log_out and AsyncUSMSAccount.log_in / log_out of the
\* first account: session.get of the page (/AccountInfo or /ResLogin), which
\* raises on a network error or a status that is not 2xx and merges the
\* page's hidden inputs otherwise; log_out empties the cookie jar; then the
\* branch on self.is_authenticated().  The sync call runs the probe on the
\* response `probe`; AsyncUSMSAccount does not await the call, so `called`
\* is the coroutine object and the probe does not run.  One call is followed,
\* on a fresh session.
LogInOut(op, page, probe) ==
    LET get_raised == IF page = NetworkError THEN "HTTPError"
                      ELSE IF raise_for_status(page) THEN "HTTPStatusError"
                      ELSE "none"
        probe_raises == probe # NetworkError /\ decode_raises(probe)
        answer == IF probe = NetworkError THEN "False"
                  ELSE PyBool(PyNot(is_expired(probe)))
        called == IF async_mode THEN "coroutine" ELSE answer
        first == Request("GET", IF op = "log_in" THEN "AccountInfo" ELSE "ResLogin",
                         NoHidden, auth)
        raised == IF get_raised # "none" THEN get_raised
                  ELSE IF ~async_mode /\ probe_raises THEN "UnicodeDecodeError"
                  ELSE "none"
    IN  /\ ops = 0
        /\ ops' = 1
        /\ wire' = IF get_raised # "none" \/ async_mode THEN <<first>>
                   ELSE <<first, Request("GET", "AccountInfo", NoHidden, "None")>>
        /\ asp_state' = IF get_raised = "none"
                        THEN _extract_asp_state(asp_state, page) ELSE asp_state
        /\ cookies' = IF op = "log_out" /\ get_raised = "none"
                      THEN [cookies EXCEPT ![1] = "none"] ELSE cookies
        /\ cres' = [op |-> op, response |-> page, probe |-> probe,
                    probed |-> IF get_raised # "none" THEN "not called"
                               ELSE IF async_mode THEN "not awaited"
                               ELSE IF probe_raises THEN "raised"
                               ELSE answer,
                    raised |-> raised,
                    result |-> IF raised # "none" THEN "none"
                               ELSE IF op = "log_in" THEN PyBool(~PyNot(called))
                               ELSE PyBool(PyNot(called))]
        /\ UNCHANGED <<kind, meterVars, auth, expired_run, finderVars,
                       infoVars, stores, caches, tasks>>

\* a direct call of the expiry detector of the session's mode (awaited when
\* async)
IsExpiredCall(response) ==
    /\ cres' = IF decode_raises(response)
                THEN Ended("is_expired", response, NoPortal,
                           "UnicodeDecodeError", "none")
                ELSE Ended("is_expired", response, NoPortal, "none",
                           PyBool(IF async_mode THEN _is_expired_async(response)
                                  ELSE _is_expired_sync(response)))
    /\ UNCHANGED <<kind, moreVars, ops, asp_state, auth, wire, expired_run, meterVars>>

\* USMSASPStateMixin.__init__, and a session with its auth installed
InitClient ==
    /\ asp_state = NoHidden
    /\ auth = "usms_auth"
    /\ wire = << >>
    /\ cres = Ended("init", NetworkError, NoPortal, "none", "none")
    /\ expired_run = 0

----------------------------------------------------------------------------
(* Sessions of two accounts and concurrent fetches *)

Accounts == {1, 2}

\* the fetches in progress: A and B for two meters of account 1, C for a
\* meter of account 2
Tasks == {"A", "B", "C"}

AccountOf(t) == IF t = "C" THEN 2 ELSE 1

\* a mutant of store_of: _asp_state as one dict shared by every client
store_shared(account) == 1

\* USMSASPStateMixin.__init__: self._asp_state = {} gives the session of each
\* account a dict of its own
store_of(account) == account

\* the __VIEWSTATE the response to the k-th exchange of a task carries
ViewStates ==
    [t \in Tasks |-> [k \in 1..HourlyExchanges |->
        IF t = "A" THEN <<"A1", "A2", "A3">>[k]
        ELSE IF t = "B" THEN <<"B1", "B2", "B3">>[k]
        ELSE <<"C1", "C2", "C3">>[k]]]

\* _build_hourly_consumptions_payload: the form of the report request
HourlyPayload == [k \in {"cboType_VI"} |-> "3"]

\* the hidden state a request's form data carries
StateUsed(data) ==
    IF "__VIEWSTATE" \in DOMAIN data THEN data["__VIEWSTATE"] ELSE "none"

\* no fetch of another task is between its first request and its return
Alone(t) == \A u \in Tasks \ {t} : tasks[u].pc # "wait"

\* fetch_hourly_consumptions up to its first await: session.get sends the GET.
\* A sync fetch blocks its caller, so no other fetch is in progress then.
TaskSend(t) ==
    /\ tasks[t].pc = "idle"
    /\ kind = "sync" => Alone(t)
    /\ tasks' = [tasks EXCEPT ![t] = [pc |-> "wait", k |-> 1, used |-> "none"]]
    /\ UNCHANGED <<kind, ops, meterVars, clientVars, finderVars, infoVars,
                   stores, cookies, caches>>

\* the response to the request in flight arrives: the client stores its
\* hidden fields (get/post after the await), and the fetch goes on to its
\* next session.post, which injects the stored state, or after the last
\* exchange parses the report and merges it into the meter's cache
TaskRecv(t, hidden) ==
    LET account == AccountOf(t)
        id == store_of(account)
        k == tasks[t].k
        response == Response(200, <<"text">>, hidden)
        stored == _extract_asp_state(stores[id], response)
        data == _inject_asp_state(stored, HourlyPayload)
        got == fetch_hourly_consumptions(caches[t], now, now, [h \in {2} |-> 1])
    IN  /\ tasks[t].pc = "wait"
        /\ stores' = [stores EXCEPT ![id] = stored]
        /\ cookies' = [cookies EXCEPT ![account] = "ASP.NET_SessionId"]
        /\ IF k < HourlyExchanges
           THEN /\ tasks' = [tasks EXCEPT ![t] = [pc |-> "wait", k |-> k + 1,
                                                  used |-> StateUsed(data)]]
                /\ UNCHANGED caches
           ELSE /\ tasks' = [tasks EXCEPT ![t].pc = "done"]
                /\ caches' = [caches EXCEPT ![t] = got.cache]
        /\ UNCHANGED <<kind, ops, meterVars, clientVars, finderVars, infoVars>>

\* the hidden fields of the response to the exchange a task waits for: its
\* __VIEWSTATE, an empty one, or none
TaskHidden(t) ==
    IF tasks[t].pc # "wait" THEN {}
    ELSE {NoHidden, [f \in {"__VIEWSTATE"} |-> ""],
          [f \in {"__VIEWSTATE"} |-> ViewStates[t][tasks[t].k]]}

\* BaseUSMSClient.__init__ per account, meters with empty caches, no fetch begun
InitSessions ==
    /\ stores = [id \in Accounts |-> NoHidden]
    /\ cookies = [a \in Accounts |-> "none"]
    /\ caches = [t \in Tasks |-> EmptyFrame]
    /\ tasks = [t \in Tasks |-> [pc |-> "idle", k |-> 0, used |-> "none"]]

----------------------------------------------------------------------------
(* The form data of the requests of one fetch *)

\* the dict object request i of a fetch passes as data=: the hourly fetch
\* builds a payload before its GET and builds it again before its last POST;
\* the daily fetch builds one payload and passes it to its last two POSTs
PayloadObject(op, i) ==
    IF op = "fetch_hourly" THEN (IF i < HourlyExchanges THEN 1 ELSE 2) ELSE 1

\* the requests of a fetch from request i on, each with the store it was sent
\* from.  `store` is the session's _asp_state and objects[o] the content of
\* payload object o before the request, hiddens[i] the hidden inputs of the
\* response to request i.  post() sends what _inject_asp_state returns, which
\* is the caller's dict with the missing keys written into it, so the object
\* passed keeps them; every response is then merged into the store.
RECURSIVE FetchExchanges(_, _, _, _, _)
FetchExchanges(op, i, store, objects, hiddens) ==
    IF i > Len(FetchRequests(op)) THEN << >>
    ELSE LET request == FetchRequests(op)[i]
             o == PayloadObject(op, i)
             data == IF request.method = "GET" THEN NoHidden
                     ELSE IF request.data = "none"
                     THEN _inject_asp_state(store, NoHidden)
                     ELSE _inject_asp_state(store, objects[o])
             kept == IF request.data = "none" THEN objects
                     ELSE [objects EXCEPT ![o] = data]
             stored == _extract_asp_state(store,
                           Response(200, <<"text">>, hiddens[i]))
         IN  <<[request |-> Request(request.method, "/Report/UsageHistory",
                                    data, auth),
                store |-> store, stored |-> stored]>>
             \o FetchExchanges(op, i + 1, stored, kept, hiddens)

\* the exchanges of one fetch_hourly_consumptions or fetch_daily_consumptions
\* that goes to the portal and meets no HTTP error
FetchSends(op, hiddens) ==
    LET payload == [k \in {"cboType_VI"} |->
                       IF op = "fetch_hourly" THEN HourlyPayload[k] ELSE "1"]
        run == FetchExchanges(op, 1, asp_state, [o \in {1, 2} |-> payload],
                              hiddens)
    IN  /\ wire' = [i \in DOMAIN run |-> run[i].request]
        /\ asp_state' = run[Len(run)].stored
        /\ cres' = [op |-> op, payload |-> payload, raised |-> "none",
                    stores |-> [i \in DOMAIN run |-> run[i].store]]
        /\ UNCHANGED <<kind, ops, moreVars, auth, meterVars, expired_run>>

----------------------------------------------------------------------------
(* The hidden-state store, called directly *)

\* the most hidden inputs a page holds
MaxInputs == 2

\* names and values of the hidden inputs of a page; "" is an empty or missing
\* value attribute
HiddenNames == {"__VIEWSTATE", "__EVENTTARGET"}

HiddenValues == {"", "v1", "v2"}

HiddenInput == [name : HiddenNames, value : HiddenValues]

\* the hidden inputs of a page in document order, at most n of them
RECURSIVE InputsUpTo(_)
InputsUpTo(n) ==
    IF n = 0 THEN {<< >>}
    ELSE LET shorter == InputsUpTo(n - 1)
         IN  shorter \cup {Append(q, i) : q \in shorter, i \in HiddenInput}

\* the pages _extract_asp_state is given: one lxml cannot parse, and the
\* well-formed ones
StorePages ==
    {[parsable |-> FALSE, inputs |-> << >>]}
        \cup {[parsable |-> TRUE, inputs |-> q] : q \in InputsUpTo(MaxInputs)}

\* a mutant of StoreHiddenInputs: a name already stored keeps its value
StoreNewInputsOnly(store, inputs) ==
    LET set == {i \in 1..Len(inputs) : inputs[i].value # ""}
        names == {inputs[i].name : i \in set}
    IN  [k \in DOMAIN store \cup names |->
            IF k \in DOMAIN store THEN store[k]
            ELSE inputs[SetMax({i \in set : inputs[i].name = k})].value]

\* the loop of _extract_asp_state over the hidden inputs in document order:
\* `if hidden_input.value:` then self._asp_state[name] = value
StoreHiddenInputs(store, inputs) ==
    LET set == {i \in 1..Len(inputs) : inputs[i].value # ""}
        names == {inputs[i].name : i \in set}
    IN  [k \in DOMAIN store \cup names |->
            IF k \in names
            THEN inputs[SetMax({i \in set : inputs[i].name = k})].value
            ELSE store[k]]

\* a mutant of extract_page: a page that does not parse wipes the store
extract_page_wipes(store, page) ==
    IF page.parsable THEN StoreHiddenInputs(store, page.inputs) ELSE NoHidden

\* USMSASPStateMixin._extract_asp_state on a page: lxml.html.fromstring raises
\* on a body it cannot parse and the except branch only logs
extract_page(store, page) ==
    IF page.parsable THEN StoreHiddenInputs(store, page.inputs) ELSE store

\* a call of _extract_asp_state(response_content)
ExtractCall(page) ==
    /\ ops < MaxOps
    /\ ops' = ops + 1
    /\ asp_state' = extract_page(asp_state, page)
    /\ cres' = [op |-> "extract", page |-> page, pre |-> asp_state,
                raised |-> "none", result |-> extract_returns(asp_state, page)]
    /\ UNCHANGED <<kind, moreVars, meterVars, auth, wire, expired_run>>

\* the form data callers pass to _inject_asp_state
InjectData ==
    {NoHidden, [k \in {"__VIEWSTATE"} |-> "mine"], [k \in {"cboType"} |-> "3"],
     [k \in {"__VIEWSTATE", "cboType"} |-> "mine"]}

\* a call of _inject_asp_state(data); with given = FALSE the call
\* _inject_asp_state(), where `if data is None: data = {}`
InjectCall(data, given) ==
    LET form == IF given THEN data ELSE NoHidden
    IN  /\ given \/ data = NoHidden
        /\ cres' = [op |-> "inject", data |-> form, given |-> given,
                    pre |-> asp_state, raised |-> "none",
                    result |-> _inject_asp_state(asp_state, form)]
        /\ UNCHANGED <<kind, ops, moreVars, meterVars, asp_state, auth, wire,
                       expired_run>>

----------------------------------------------------------------------------
(* The account's meters *)

\* the most meters an account holds
MaxMeters == 2

\* str(x) of a meter number given as a string (a sequence of characters) or
\* as an integer: the decimal digits of an integer, without leading zeros
RECURSIVE py_str(_)
py_str(x) ==
    LET digit(d) == <<"0", "1", "2", "3", "4", "5", "6", "7", "8", "9">>[d + 1]
    IN  IF ~x.is_int THEN x.s
        ELSE IF x.n < 10 THEN <<digit(x.n)>>
        ELSE Append(py_str([x EXCEPT !.n = x.n \div 10]), digit(x.n % 10))

\* the meters of an account: no is the meter number the info page shows and
\* id its base64 encoding, which is never a string of digits
AccountMeters ==
    {[no |-> no, id |-> <<"b64">> \o no] : no \in {<<"1">>, <<"0", "1">>, <<"1", "2">>}}

\* self.meters of an initialized account: at most n meters, in order
RECURSIVE MetersUpTo(_)
MetersUpTo(n) ==
    IF n = 0 THEN {<< >>}
    ELSE LET shorter == MetersUpTo(n - 1)
         IN  shorter \cup {Append(q, m) : q \in shorter, m \in AccountMeters}

\* the meter_no a caller passes to get_meter: a number or an id as a string,
\* or a number as an integer
MeterNumbers ==
    {[is_int |-> FALSE, n |-> 0, s |-> m.no] : m \in AccountMeters}
        \cup {[is_int |-> FALSE, n |-> 0, s |-> m.id] : m \in AccountMeters}
        \cup {[is_int |-> FALSE, n |-> 0, s |-> <<"7">>]}
        \cup {[is_int |-> TRUE, n |-> n, s |-> << >>] : n \in {1, 7, 12}}

\* a mutant of get_meter: when no meter matches, the first meter is returned
get_meter_or_first(meters, meter_no) ==
    LET found == {i \in 1..Len(meters) :
                     py_str(meter_no) \in {meters[i].no, meters[i].id}}
    IN  IF found # {}
        THEN [raised |-> "none", meter |-> meters[SetMin(found)]]
        ELSE IF meters # << >> THEN [raised |-> "none", meter |-> meters[1]]
        ELSE [raised |-> "USMSMeterNumberError", meter |-> [no |-> << >>, id |-> << >>]]

\* BaseUSMSAccount.get_meter: the first meter of the list with
\* str(meter_no) in (str(meter.no), meter.id); USMSMeterNumberError after the
\* loop
get_meter(meters, meter_no) ==
    LET found == {i \in 1..Len(meters) :
                     py_str(meter_no) \in {meters[i].no, meters[i].id}}
    IN  IF found # {}
        THEN [raised |-> "none", meter |-> meters[SetMin(found)]]
        ELSE [raised |-> "USMSMeterNumberError", meter |-> [no |-> << >>, id |-> << >>]]

\* a call of get_meter(meter_no) on an initialized account that holds `meters`
GetMeter(meters, meter_no) ==
    /\ cres' = [op |-> "get_meter", meters |-> meters, meter_no |-> meter_no,
                raised |-> get_meter(meters, meter_no).raised,
                result |-> get_meter(meters, meter_no).meter]
    /\ UNCHANGED <<kind, ops, moreVars, meterVars, asp_state, auth, wire,
                   expired_run>>

----------------------------------------------------------------------------
(* The configured tariffs *)

\* float("inf") as the upper bound of a tier
Inf == -1

\* ELECTRIC_TARIFF: the tiers USMSTariffTier(lower, upper, rate) in the order
\* of the list, bounds in hundredths of a unit and rates in cents
ELECTRIC_TARIFF ==
    <<[lower |-> 100, upper |-> 60000, rate |-> 1],
      [lower |-> 60100, upper |-> 200000, rate |-> 8],
      [lower |-> 200100, upper |-> 400000, rate |-> 10],
      [lower |-> 400100, upper |-> Inf, rate |-> 12]>>

\* WATER_TARIFF, in the same units
WATER_TARIFF ==
    <<[lower |-> 100, upper |-> 5454, rate |-> 11],
      [lower |-> 5454, upper |-> Inf, rate |-> 44]>>

\* the tariff calculate_total_cost picks for a meter: the loop over TARIFFS
\* takes the tariff whose key, in upper case, is contained in the meter's type
\* in upper case (ELECTRIC in ELECTRICITY, WATER in WATER); << >> is None
TariffOfType(type) ==
    IF type = "Electricity" THEN ELECTRIC_TARIFF
    ELSE IF type = "Water" THEN WATER_TARIFF
    ELSE << >>

\* BaseUSMSMeter.calculate_total_cost for a series whose total is
\* `total_consumption` hundredths of a unit: 0.0 when no tariff is found, the
\* tariff's calculate_cost otherwise
CalculateTotalCost(type, total_consumption) ==
    /\ cres' = [op |-> "calculate_total_cost", type |-> type,
                total_consumption |-> total_consumption,
                tariff |-> TariffOfType(type), raised |-> "none",
                result |-> IF TariffOfType(type) = << >> THEN "0.0"
                           ELSE "tariff.calculate_cost(total_consumption)"]
    /\ UNCHANGED <<kind, ops, moreVars, meterVars, asp_state, auth, wire,
                   expired_run>>

----------------------------------------------------------------------------
(* The base meter's payloads and parsers *)

\* the datetime of day `day` of month `month`, `minutes` after midnight
DateTime(month, day, minutes) ==
    (DaysBefore(month) + day - 1) * MinutesPerDay + minutes

\* BaseUSMSMeter._build_daily_consumptions_payload(date) when
\* datetime.now(tz=BRUNEI_TZ) is t_now, both in the same year.  cboDateFrom
\* and cboDateTo are the day and month of the formatted strings (the day of
\* cboDateFrom is the literal 01, its month is mm); the two $State fields are
\* the rawValue epochs, in minutes.
_build_daily_consumptions_payload(date, t_now) ==
    LET date_from == DateTime(MonthOf(date), 1, 8 * MinutesPerHour)
        today == sanitize_date(t_now)
        date_to == IF MonthOf(date) = MonthOf(today)
                   THEN today - MinutesPerDay
                   ELSE DateTime(MonthOf(date), MonthDays[MonthOf(date)],
                                 date % MinutesPerDay)
    IN  [cboDateFrom |-> [dd |-> 1, mm |-> MonthOf(date_to)],
         cboDateTo |-> [dd |-> DayOfMonth(date_to), mm |-> MonthOf(date_to)],
         from_state |-> date_from,
         to_state |-> date_to]

\* a call of _build_daily_consumptions_payload(date) at the instant t_now
BuildDailyPayload(date, t_now) ==
    /\ cres' = [op |-> "build_daily_payload", date |-> date, now |-> t_now,
                raised |-> "none",
                payload |-> _build_daily_consumptions_payload(date, t_now)]
    /\ UNCHANGED <<kind, ops, moreVars, meterVars, asp_state, auth, wire,
                   expired_run>>

\* BaseUSMSMeter.parse_consumptions_error: find() gives None when the span is
\* missing and .text_content() on None raises AttributeError
parse_consumptions_error(page) ==
    IF ~page.err.present
    THEN [raised |-> "AttributeError", error_message |-> ""]
    ELSE [raised |-> "none", error_message |-> page.err.text]

\* the dict the loop over the rows of a table builds: label -> value, a later
\* row replacing an earlier one with the same label
RowsDict(rows) ==
    [l \in {rows[i].label : i \in DOMAIN rows} |->
        rows[SetMax({i \in DOMAIN rows : rows[i].label = l})].value]

\* BaseUSMSMeter.parse_hourly_consumptions: the error message is only logged;
\* a missing table gives the empty dict
parse_hourly_consumptions(page) ==
    IF parse_consumptions_error(page).raised # "none"
    THEN [raised |-> parse_consumptions_error(page).raised, result |-> << >>]
    ELSE IF ~page.table.present
    THEN [raised |-> "none", result |-> << >>]
    ELSE [raised |-> "none", result |-> RowsDict(page.table.rows)]

\* BaseUSMSMeter.parse_daily_consumptions: a non-empty error message returns
\* the empty frame; otherwise table.findall runs with no check of the table,
\* and raises AttributeError on None
parse_daily_consumptions(page) ==
    IF parse_consumptions_error(page).raised # "none"
    THEN [raised |-> parse_consumptions_error(page).raised, result |-> << >>]
    ELSE IF parse_consumptions_error(page).error_message # ""
    THEN [raised |-> "none", result |-> << >>]
    ELSE IF ~page.table.present
    THEN [raised |-> "AttributeError", result |-> << >>]
    ELSE [raised |-> "none", result |-> RowsDict(page.table.rows)]

\* the parse of the last response of a fetch: parse_hourly_consumptions in
\* fetch_hourly_consumptions, parse_daily_consumptions in
\* fetch_daily_consumptions; what it raises leaves the fetch
ParseReport(op, page) ==
    LET parsed == IF op = "parse_hourly" THEN parse_hourly_consumptions(page)
                  ELSE parse_daily_consumptions(page)
    IN  /\ cres' = [op |-> op, page |-> page, raised |-> parsed.raised,
                    result |-> parsed.result]
        /\ UNCHANGED <<kind, ops, moreVars, meterVars, asp_state, auth, wire,
                       expired_run>>

----------------------------------------------------------------------------
(* Inputs of the session's operations *)

\* the hidden fields of the pages the session meets
HiddenMaps ==
    {NoHidden, [k \in {"__EVENTVALIDATION"} |-> "e1"]}
        \cup {[k \in {"__VIEWSTATE"} |-> v] : v \in {"", "v1", "v2"}}

\* the bodies of the pages the session meets
PageBodies == {<<"text">>, <<"text", ExpiredText>>, <<SessionExpireMarker>>}

PageResponses ==
    {Response(s, b, h) : s \in {200, 302, 404}, b \in PageBodies, h \in HiddenMaps}
        \cup {NetworkError, [Response(200, << >>, NoHidden) EXCEPT !.parsable = FALSE]}

\* the form data a caller passes to post
FormData == {NoHidden, [k \in {"__VIEWSTATE"} |-> "mine"], [k \in {"cboType"} |-> "3"]}

\* redirect histories of the login response
Url(sig) == <<[name |-> "Sig", value |-> sig]>>

Histories ==
    {<< >>, << <<[name |-> "p", value |-> "1"]>> >>, <<Url("s1")>>,
     <<Url("s1"), Url("s2")>>}

LoginPortals ==
    {[login_page |-> p, cookie |-> c, history |-> h] :
        p \in {NetworkError, Response(200, <<"text">>, NoHidden),
               Response(200, <<"text">>, [k \in {"__VIEWSTATE"} |-> "v1"])},
        c \in BOOLEAN, h \in Histories}

\* the responses the expiry detector is called on
ExpiryResponses ==
    {Response(s, b, NoHidden) :
        s \in {200, 301, 302, 307, 404}, b \in BodiesUpTo(MaxBodyLen)}

----------------------------------------------------------------------------
(* Specifications *)

\* an initialized meter of a sync or an async account
Init ==
    /\ kind \in {"sync", "async"}
    /\ ops = 0
    /\ InitMeter
    /\ InitClient
    /\ InitFinder
    /\ InitInfo
    /\ InitSessions

\* the meter's fetches and the clock
Next ==
    \/ \E date \in HourlyDates, o \in Outcomes(HourlyRows, HourlyExchanges) :
           FetchHourly(date, o)
    \/ \E date \in DailyDates, o \in Outcomes(DailyRows, DailyExchanges) :
           FetchDaily(date, o)
    \/ \E d \in TickSteps : Tick(d)

Spec == Init /\ [][Next]_vars

\* the session's operations
NextClient ==
    \/ \E r \in PageResponses : ClientGet(r)
    \/ \E d \in FormData, r \in PageResponses : ClientPost(d, r)
    \/ \E p \in LoginPortals : Authenticate(p)
    \/ \E r \in PageResponses \cup {Response(200, <<InvalidBytes>>, NoHidden)} :
           IsAuthenticated(r)

SpecClient == Init /\ [][NextClient]_vars

\* log_in and log_out of an account, for the pages the session meets and the
\* responses its probe meets
NextLogin ==
    \E op \in {"log_in", "log_out"}, page \in PageResponses,
       probe \in PageResponses \cup {Response(200, <<InvalidBytes>>, NoHidden)} :
        LogInOut(op, page, probe)

SpecLogin == Init /\ [][NextLogin]_vars

\* calls of the expiry detector
\* the fetches a caller makes between two calls of the finder; one returns
\* rows only for a day the portal holds
FinderFetches ==
    {[raise_at |-> 1, rows |-> << >>], [raise_at |-> 0, rows |-> << >>],
     [raise_at |-> 0, rows |-> [h \in {2} |-> 2]]}

\* the finder on a portal with a run of days of data that ends today or
\* yesterday, the caller's own fetches and the clock
NextFinder ==
    \/ \E n \in 1..MaxRun, h0 \in FirstHours, lag \in {0, 1} :
           PortalHolds(n, h0, lag)
    \/ FindCall
    \/ FindScan
    \/ FindProbe
    \/ \E date \in HourlyDates, o \in FinderFetches :
           /\ finder.pc = "idle"
           /\ portal_data.run > 0
           /\ DOMAIN o.rows # {} => DOMAIN PortalRows(date) # {}
           /\ FetchHourly(date, o)
    \/ portal_data.run > 0 /\ Tick(refresh_interval)

SpecFinder == Init /\ [][NextFinder]_vars

\* one search of the finder on a portal that holds a history of up to
\* MaxHistory days ending today
NextSearch ==
    \/ \E n \in 1..MaxHistory, h0 \in FirstHours : PortalHolds(n, h0, 0)
    \/ finder.calls = 0 /\ FindCall
    \/ FindScan
    \/ FindProbe

SpecSearch == Init /\ [][NextSearch]_vars

\* the finder called on 5 March or, the clock having advanced by 27 or 28
\* days before the call, on the first or the second day of April, on a
\* portal whose run of days ends today or yesterday
NextMonth ==
    \/ \E days \in {27, 28} :
           /\ now = StartNow
           /\ portal_data.run = 0
           /\ Tick(days * MinutesPerDay)
    \/ \E n \in 1..MaxRun, h0 \in FirstHours, lag \in {0, 1} :
           PortalHolds(n, h0, lag)
    \/ FindCall
    \/ FindScan
    \/ FindProbe

SpecMonth == Init /\ [][NextMonth]_vars

\* the outcomes of the consumption fetches made beside the refreshes
RefreshFetches ==
    {[raise_at |-> 1, rows |-> << >>], [raise_at |-> 0, rows |-> [h \in {2} |-> 2]]}

\* the refresh gate, the refresh operations, the consumption fetches and the
\* clock
NextRefresh ==
    \/ IsUpdateDue
    \/ \E info \in InfoOutcomes : RefreshData(info)
    \/ \E info \in InfoOutcomes : CheckUpdateAndRefresh(info)
    \/ \E o \in RefreshFetches \cup {[raise_at |-> HourlyExchanges + 1, rows |-> << >>]} :
           FetchHourly(now, o)
    \/ \E o \in RefreshFetches : FetchDaily(now, o)
    \/ \E d \in RefreshTicks : Tick(d)

SpecRefresh == Init /\ [][NextRefresh]_vars

\* concurrent fetches on the sessions of two accounts
NextSessions ==
    \/ \E t \in Tasks : TaskSend(t)
    \/ \E t \in Tasks : \E hidden \in TaskHidden(t) : TaskRecv(t, hidden)

SpecSessions == Init /\ [][NextSessions]_vars

\* the store's two methods called in any order
NextStore ==
    \/ \E page \in StorePages : ExtractCall(page)
    \/ \E data \in InjectData, given \in BOOLEAN : InjectCall(data, given)

SpecStore == Init /\ [][NextStore]_vars

\* the rows parse_hourly_consumptions yields for a report with one row for
\* each of the hours 0 to 23
FullDayRows == {[h \in 0..(HoursPerDay - 1) |-> v] : v \in Values}

\* hourly fetches against a portal whose reports hold a full day, and the clock
NextDay ==
    \/ \E date \in HourlyDates, o \in Outcomes(FullDayRows, HourlyExchanges) :
           FetchHourly(date, o)
    \/ \E d \in TickSteps : Tick(d)

SpecDay == Init /\ [][NextDay]_vars

\* the same hourly fetch made on a sync and on an async meter, and the clock
NextBoth ==
    \/ \E date \in HourlyDates, rows \in HourlyRows \cup FullDayRows :
           FetchBoth(date, rows)
    \/ \E d \in TickSteps : Tick(d)

SpecBoth == Init /\ [][NextBoth]_vars

\* the lookups of an account and its meters: get_meter on the accounts of at
\* most MaxMeters meters, and calculate_total_cost for the meter types and for
\* totals at, just below and just above the bounds of the tiers
NextAccount ==
    \/ \E meters \in MetersUpTo(MaxMeters), x \in MeterNumbers : GetMeter(meters, x)
    \/ \E type \in {"Electricity", "Water", ""},
          bound \in {0, 100, 5454, 60000, 60100, 200000, 200100, 400000, 400100},
          d \in {0, 50} :
           CalculateTotalCost(type, bound + d)

SpecAccount == Init /\ [][NextAccount]_vars

\* the base meter's payload builder and parsers, called directly: the payload
\* for the first, the second and the 28th day of January to March, built on
\* such a day of February or March; the parsers on pages whose span
\* pcErr_lblErrMsg is missing, empty or holds a message and whose table
\* ASPxPageControl1_grid_DXMainTable is missing or holds the dxgvDataRow rows
NextBase ==
    LET dates == {DateTime(m, d, t) :
                     m \in 1..3, d \in {1, 2, 28}, t \in {0, 10 * MinutesPerHour}}
        pages ==
            [err : {[present |-> FALSE, text |-> ""],
                    [present |-> TRUE, text |-> ""],
                    [present |-> TRUE, text |-> "consumption history not found."],
                    [present |-> TRUE, text |-> "Invalid date"]},
             table : {[present |-> FALSE, rows |-> << >>]} \cup
                     [present : {TRUE},
                      rows : {<< >>} \cup
                             {<<[label |-> 1, value |-> v]>> : v \in Values}]]
    IN  \/ \E date \in dates, t_now \in {t \in dates : MonthOf(t) > 1} :
               BuildDailyPayload(date, t_now)
        \/ \E op \in {"parse_hourly", "parse_daily"}, page \in pages :
               ParseReport(op, page)

SpecBase == Init /\ [][NextBase]_vars

\* fetches that go to the portal, the response to each exchange carrying no
\* __VIEWSTATE, an empty one or one of its own
NextPosts ==
    \E op \in {"fetch_hourly", "fetch_daily"} :
        \E hiddens \in [1..Len(FetchRequests(op)) ->
                           {NoHidden, [f \in {"__VIEWSTATE"} |-> ""]}
                           \cup {[f \in {"__VIEWSTATE"} |-> v] : v \in {"v1", "v2"}}] :
            FetchSends(op, hiddens)

SpecPosts == Init /\ [][NextPosts]_vars

\* calls of the expiry detector, and the signature loop of the login flow
NextExpiry ==
    \/ \E r \in ExpiryResponses : IsExpiredCall(r)
    \/ \E h \in SigHistories(MaxHops) : SigLoop(h)

SpecExpiry == Init /\ [][NextExpiry]_vars

----------------------------------------------------------------------------
(* Claims about the consumption caches *)

IsFetch == last.op \in {"fetch_hourly", "fetch_daily"}

\* the last operation fetched a non-empty frame from the portal and merged it
Merged == IsFetch /\ ~last.hit /\ last.raised = "none" /\ DOMAIN last.fetched # {}

\* the cache the last operation worked on, before and after it
PreCache == IF last.op = "fetch_hourly" THEN last.pre_h ELSE last.pre_d

PostCache ==
    IF last.op = "fetch_hourly" THEN hourly_consumptions ELSE daily_consumptions

C2_CacheOnlyGrows ==
    /\ DOMAIN last.pre_h \subseteq DOMAIN hourly_consumptions
    /\ DOMAIN last.pre_d \subseteq DOMAIN daily_consumptions
    /\ (IsFetch /\ ~last.hit /\ last.raised = "none" /\ DOMAIN last.fetched = {}) =>
           /\ hourly_consumptions = last.pre_h
           /\ daily_consumptions = last.pre_d

\* a merge into a cache that held timestamps the fetched frame does not have
C2_Witness ==
    /\ Merged
    /\ DOMAIN PreCache \ DOMAIN last.fetched # {}
    /\ DOMAIN last.fetched \ DOMAIN PreCache # {}

\* the rows of the requested period in the cache before the last fetch
PeriodRows ==
    IF last.op = "fetch_hourly"
    THEN {t \in DOMAIN last.pre_h : DayOf(t) = DayOf(last.date)}
    ELSE {t \in DOMAIN last.pre_d : MonthOf(t) = MonthOf(last.date)}

\* C3: a fetch returns the cached slice of the period, with no exchange,
\* exactly when the cache held a row of the period and either every such row
\* was checked less than the refresh interval ago or the requested date lies
\* more than 3 days (hourly) or 34 days (daily) back; otherwise the freshness
\* check yields nothing and the fetch goes to the portal.
C3_FreshnessDecides ==
    IsFetch =>
        LET recent == \A t \in PeriodRows : last.at - PreCache[t].lc < 15
            cutoff == IF last.op = "fetch_hourly" THEN 3 * 24 * 60 ELSE 34 * 24 * 60
            settled == last.at - last.date > cutoff
            usable == PeriodRows # {} /\ (recent \/ settled)
        IN  /\ last.hit <=> usable
            /\ last.hit =>
                   /\ last.exchanges = 0
                   /\ last.result = [t \in PeriodRows |-> PreCache[t].v]
            /\ ~last.hit => last.exchanges >= 1

\* a fetch served from rows that are older than the refresh interval, because
\* the requested day is past the cutoff
C3_Witness ==
    /\ last.op = "fetch_hourly"
    /\ last.hit
    /\ \E t \in PeriodRows : last.at - last.pre_h[t].lc >= 15

----------------------------------------------------------------------------
(* Claims about the session client *)

IsRequest == cres.op \in {"get", "post"}

\* the last get/post received a response the expiry detector calls expired
GotExpired ==
    IsRequest /\ cres.response # NetworkError /\ _is_expired_sync(cres.response)

\* C4: when the response to a get/post attempt is expired, the session runs
\* the login flow and repeats the request; the caller does not receive the
\* expired response of a first attempt.
C4_ExpiredIsRetried ==
    GotExpired =>
        /\ \E i \in 1..Len(wire) : wire[i].url = "ResLogin"
        /\ Len(wire) > 1
        /\ cres.result # "response"

\* C5: a session whose get/post received 3 expired responses in a row has
\* raised USMSLoginError.
C5_ThirdExpiredRaisesLoginError ==
    expired_run >= 3 => cres.raised = "USMSLoginError"

HasMarker(body, marker) == \E i \in 1..Len(body) : body[i] = marker

LoginRan == cres.op = "authenticate" /\ cres.portal.login_page # NetworkError

\* the hidden fields the login page carries
PageHidden ==
    {k \in DOMAIN cres.portal.login_page.hidden : cres.portal.login_page.hidden[k] # ""}

NoSigInHistory ==
    \A i \in 1..Len(cres.portal.history) :
        \A j \in 1..Len(cres.portal.history[i]) :
            cres.portal.history[i][j].name # "Sig"

\* C7: a run of the login flow sends GET login page, POST login form, GET
\* session URL in this order; the POST carries username, password, the login
\* button and every hidden field of the login page; the session GET carries
\* the username and the signature.
C7_LoginFlowOrder ==
    LoginRan =>
        /\ Len(wire) >= 2
        /\ wire[1].method = "GET" /\ wire[1].url = "ResLogin"
        /\ wire[2].method = "POST" /\ wire[2].url = "ResLogin"
        /\ {"ASPxRoundPanel1$btnLogin", "ASPxRoundPanel1$txtUsername",
            "ASPxRoundPanel1$txtPassword"} \cup PageHidden \subseteq DOMAIN wire[2].data
        /\ wire[2].data["ASPxRoundPanel1$txtUsername"] = "user"
        /\ wire[2].data["ASPxRoundPanel1$txtPassword"] = "secret"
        /\ \A k \in PageHidden : wire[2].data[k] = cres.portal.login_page.hidden[k]
        /\ Len(wire) >= 3 =>
               /\ wire[3].method = "GET" /\ wire[3].url = "LoginSession.aspx"
               /\ wire[3].data["pLoginName"] = "user"

\* C8: when no hop of the login response's history has 'Sig=', the login flow
\* raises USMSLoginError and sends no session-establishment GET.
C8_NoSigIsLoginError ==
    (LoginRan /\ NoSigInHistory) =>
        /\ cres.raised = "USMSLoginError"
        /\ \A i \in 1..Len(wire) : wire[i].url # "LoginSession.aspx"

\* C9: when the login page has no hidden state, or the login response leaves
\* no session cookie, or no signature is present, authenticate ends with
\* USMSLoginError and with no other exception.
C9_MissingFieldIsLoginError ==
    (LoginRan /\ (PageHidden = {} \/ ~cres.portal.cookie \/ NoSigInHistory)) =>
        cres.raised = "USMSLoginError"

\* C10: a probe sends exactly one GET of the account page with the session's
\* auth disabled, and answers true exactly when the expiry detector answers
\* false on the response; false when the request failed.
C10_ProbeReportsExpiry ==
    cres.op = "is_authenticated" =>
        /\ Len(wire) = 1
        /\ wire[1].method = "GET" /\ wire[1].url = "AccountInfo"
        /\ wire[1].auth = "None"
        /\ cres.response = NetworkError => cres.result = "False"
        /\ cres.response # NetworkError =>
               (cres.result = "True" <=> ~_is_expired_sync(cres.response))

----------------------------------------------------------------------------
(* Claims about the earliest-date finder *)

\* the oldest calendar day of the run of days the portal holds data for
OldestDay == (DayOf(now) - portal_data.lag - portal_data.run + 1) * MinutesPerDay

\* a search that started on an empty cache has returned
SearchReturned ==
    /\ finder.pc = "idle"
    /\ finder.raised = "none"
    /\ finder.probes > 0
    /\ finder.from_empty

\* C11: when the portal holds hourly data for exactly the n most recent days
\* and the hourly cache is empty, find_earliest_consumption_date returns the
\* oldest calendar day that has data.
C11_FinderReturnsOldestDay ==
    SearchReturned => finder.result = OldestDay

\* C12: once find_earliest_consumption_date has returned a date, every later
\* call returns that date at once, with no probe and no exchange, and the
\* date stays the one returned, whatever fetches happen in between.
C12_FoundDateIsKept ==
    [][(finder.returned # NoDate /\ finder' # finder) =>
           /\ finder'.pc = "idle"
           /\ finder'.raised = "none"
           /\ finder'.result = finder.returned
           /\ finder'.returned = finder.returned
           /\ finder'.probes = 0
           /\ finder'.exchanges = 0
           /\ hourly_consumptions' = hourly_consumptions]_vars

\* a second call answered from the meter after a fetch that went to the
\* portal and changed the cache the first search had filled
C12_Witness ==
    /\ finder.calls = 2
    /\ finder.pc = "idle"
    /\ finder.probes = 0
    /\ finder.result # NoDate
    /\ finder.result = finder.returned
    /\ last.op = "fetch_hourly"
    /\ last.exchanges = HourlyExchanges
    /\ DOMAIN last.pre_h # {}
    /\ hourly_consumptions # last.pre_h

----------------------------------------------------------------------------
(* Claims about the refresh gate and the refresh operations *)

\* C13: is_update_due returns true exactly when more than 60 minutes have
\* passed since last_update and more than 15 minutes since last_refresh; it
\* is false when only one or neither threshold is exceeded.
C13_DueIffBothExceeded ==
    rlast.op = "is_update_due" =>
        (rlast.result <=> (/\ rlast.at - rlast.pre_update > 60
                           /\ rlast.at - rlast.pre_refresh > 15))

\* is_update_due answered false with the update threshold exceeded and
\* exactly the refresh interval passed since the last refresh
C13_Witness ==
    /\ rlast.op = "is_update_due"
    /\ rlast.result = FALSE
    /\ rlast.at - rlast.pre_update > 60
    /\ rlast.at - rlast.pre_refresh = 15

\* C14: after every attempt of refresh_data, failed or not, is_update_due is
\* false until the refresh interval has elapsed since that attempt.
C14_NotDueAfterAttempt ==
    (rlast.attempt_at # NoDate /\ now - rlast.attempt_at <= 15) =>
        ~is_update_due(now, last_update, last_refresh)

\* C15: no fetch operation of a meter lets an error reach its caller: it
\* returns no update (False, an empty series) and leaves the caches and the
\* info as they were.
C15_FetchErrorsAreCaught ==
    /\ last.op \in {"fetch_hourly", "fetch_daily"} =>
           /\ last.raised = "none"
           /\ (last.exchanges > 0 /\ DOMAIN last.fetched = {}) =>
                  /\ DOMAIN last.result = {}
                  /\ (last.at = now => /\ hourly_consumptions = last.pre_h
                                       /\ daily_consumptions = last.pre_d)
    /\ rlast.op \in {"refresh_data", "check_update_and_refresh"} =>
           rlast.raised = "none"

----------------------------------------------------------------------------
(* Claims about sessions and concurrency *)

\* a task's own hidden states
OwnStates(t) == {ViewStates[t][k] : k \in 1..HourlyExchanges}

\* C16: the requests of one account's session are serialized: while a request
\* of one fetch is in flight, or its fetch is between two exchanges, no other
\* fetch of the same account has a request in flight, and no request carries
\* hidden state that a response of another fetch still in progress stored.
C16_RequestsSerialized ==
    \A t, u \in Tasks :
        (t # u /\ AccountOf(t) = AccountOf(u)) =>
            /\ ~(tasks[t].pc = "wait" /\ tasks[u].pc = "wait")
            /\ tasks[u].pc = "wait" => tasks[t].used \notin OwnStates(u)

\* what account b's session and meters hold
AccountView(b) ==
    <<stores[store_of(b)], cookies[b],
      [t \in {u \in Tasks : AccountOf(u) = b} |-> caches[t]]>>

\* C17: no step of a fetch on one account's session changes the hidden state,
\* the cookies or the meter caches of the other account.
C17_AccountsIndependent ==
    [][\A t \in Tasks : tasks'[t] # tasks[t] =>
          \A b \in Accounts \ {AccountOf(t)} :
              AccountView(b)' = AccountView(b)]_vars

\* both accounts have fetched, interleaved, and each session holds the hidden
\* state of its own account's last response
C17_Witness ==
    /\ tasks["A"].pc = "done"
    /\ tasks["C"].pc = "done"
    /\ stores[store_of(1)] = [f \in {"__VIEWSTATE"} |-> "A3"]
    /\ stores[store_of(2)] = [f \in {"__VIEWSTATE"} |-> "C3"]
    /\ DOMAIN caches["A"] # {}
    /\ DOMAIN caches["C"] # {}

----------------------------------------------------------------------------
(* Claims about the hidden-state store *)

\* C18: _inject_asp_state returns form data in which every key the caller set
\* keeps the caller's value and every stored key the caller did not set has
\* the stored value; it adds no other key, and with no form data given it
\* returns exactly the stored state.
C18_CallerValuesWin ==
    cres.op = "inject" =>
        /\ DOMAIN cres.result = DOMAIN cres.data \cup DOMAIN cres.pre
        /\ \A k \in DOMAIN cres.data : cres.result[k] = cres.data[k]
        /\ \A k \in DOMAIN cres.pre \ DOMAIN cres.data :
               cres.result[k] = cres.pre[k]
        /\ ~cres.given => cres.result = cres.pre

\* the caller set __VIEWSTATE while the store holds another __VIEWSTATE and a
\* key the caller did not set
C18_Witness ==
    /\ cres.op = "inject"
    /\ cres.given
    /\ DOMAIN cres.pre = {"__VIEWSTATE", "__EVENTTARGET"}
    /\ "__VIEWSTATE" \in DOMAIN cres.data
    /\ cres.result["__VIEWSTATE"] = "mine"
    /\ cres.pre["__VIEWSTATE"] # "mine"
    /\ cres.result["__EVENTTARGET"] = cres.pre["__EVENTTARGET"]

\* the hidden inputs of the page of the last extract call
PageInputs == {cres.page.inputs[i] : i \in 1..Len(cres.page.inputs)}

\* C19 as stated: after _extract_asp_state processes a well-formed response,
\* every hidden-input field of the response is in the store with the value
\* the response gives it.
C19_EveryFieldStored ==
    (cres.op = "extract" /\ cres.page.parsable) =>
        \A k \in {i.name : i \in PageInputs} :
            /\ k \in DOMAIN asp_state
            /\ asp_state[k] \in {i.value : i \in {j \in PageInputs : j.name = k}}

\* C19 amended: after _extract_asp_state processes a well-formed response,
\* every name for which the response has a hidden input with a non-empty
\* value is in the store with the value of the last such input (inserted or
\* overwritten); every other name keeps the entry it had, or none.
C19_NonEmptyFieldsStored ==
    (cres.op = "extract" /\ cres.page.parsable) =>
        LET q == cres.page.inputs
            set == {i \in 1..Len(q) : q[i].value # ""}
            names == {q[i].name : i \in set}
        IN  /\ DOMAIN asp_state = DOMAIN cres.pre \cup names
            /\ \A k \in names :
                   asp_state[k] = q[SetMax({i \in set : q[i].name = k})].value
            /\ \A k \in DOMAIN cres.pre \ names : asp_state[k] = cres.pre[k]

\* a page overwrote a stored value with a new one and its empty-valued input
\* left another stored entry alone
C19_Witness ==
    /\ cres.op = "extract"
    /\ cres.page.parsable
    /\ cres.page.inputs = <<[name |-> "__VIEWSTATE", value |-> "v2"],
                            [name |-> "__EVENTTARGET", value |-> ""]>>
    /\ DOMAIN cres.pre = {"__VIEWSTATE", "__EVENTTARGET"}
    /\ cres.pre["__VIEWSTATE"] = "v1"
    /\ asp_state["__VIEWSTATE"] = "v2"
    /\ asp_state["__EVENTTARGET"] = cres.pre["__EVENTTARGET"]

\* C20: given a body that cannot be parsed, _extract_asp_state raises nothing
\* and leaves the stored hidden state as it was.
C20_ParseFailureKeepsState ==
    (cres.op = "extract" /\ ~cres.page.parsable) =>
        /\ cres.raised = "none"
        /\ asp_state = cres.pre

\* an unparsable body arrived while the store held state
C20_Witness ==
    /\ cres.op = "extract"
    /\ ~cres.page.parsable
    /\ DOMAIN cres.pre # {}
    /\ asp_state = cres.pre

----------------------------------------------------------------------------
(* Claims about the session's hidden state across operations *)

\* C21: across any sequence of get, post and login-flow operations on one
\* session, a hidden-state key once present in the store is never removed, and
\* its value changes only when the response of the operation supplies that
\* value for the same key.
C21_KeysAreKept ==
    [][\A k \in DOMAIN asp_state :
           /\ k \in DOMAIN asp_state'
           /\ asp_state'[k] # asp_state[k] =>
                  /\ k \in DOMAIN cres'.response.hidden
                  /\ asp_state'[k] = cres'.response.hidden[k]]_vars

\* two keys are stored and the last response, which was merged, supplied only
\* one of them
C21_Witness ==
    /\ cres.op \in {"get", "post"}
    /\ cres.raised = "none"
    /\ DOMAIN cres.response.hidden = {"__EVENTVALIDATION"}
    /\ DOMAIN asp_state = {"__VIEWSTATE", "__EVENTVALIDATION"}
    /\ asp_state["__VIEWSTATE"] = "v2"

----------------------------------------------------------------------------
(* Claims about the period of a fetch *)

\* the timestamp lies in the period the last fetch was asked for: the day of
\* the date (hourly) or its month (daily)
InPeriod(t) ==
    IF last.op = "fetch_hourly" THEN DayOf(t) = DayOf(last.date)
    ELSE MonthOf(t) = MonthOf(last.date)

\* C22: every timestamp a fetch returns, and every timestamp it merges into
\* the cache, lies in the requested period: on the calendar day of the date
\* for fetch_hourly_consumptions, in its calendar month for
\* fetch_daily_consumptions.
C22_FetchStaysInPeriod ==
    (IsFetch /\ last.raised = "none") =>
        /\ \A t \in DOMAIN last.result : InPeriod(t)
        /\ \A t \in DOMAIN PostCache \ DOMAIN PreCache : InPeriod(t)

\* C23: a fetch of hourly consumptions that went to the portal and parsed a
\* report with one row for each of the hours 0 to 23 (every report of SpecDay)
\* returns exactly 24 entries, one per hour from 00:00 to 23:00 of the
\* requested date - in the sync and in the async meter.
C23_FullDayOfTheDate ==
    (last.op = "fetch_hourly" /\ ~last.hit /\ last.raised = "none") =>
        /\ Cardinality(DOMAIN last.result) = 24
        /\ DOMAIN last.result = {last.date + h * 60 : h \in 0..23}

----------------------------------------------------------------------------
(* Claims about the account *)

\* the meters of the account whose number or id equals the meter_no of the
\* last get_meter call, written as a string
Matching ==
    {i \in 1..Len(cres.meters) :
        \/ cres.meters[i].no = py_str(cres.meter_no)
        \/ cres.meters[i].id = py_str(cres.meter_no)}

\* C24: get_meter(x) on an initialized account returns a meter whose number or
\* id equals x, given as a string or an integer, whenever the account has such
\* a meter, and raises USMSMeterNumberError when it has none; it never returns
\* a meter that does not match.
C24_GetMeterMatches ==
    cres.op = "get_meter" =>
        /\ Matching # {} =>
               /\ cres.raised = "none"
               /\ \E i \in Matching : cres.result = cres.meters[i]
        /\ Matching = {} => cres.raised = "USMSMeterNumberError"

\* the integer 12 found the second meter of an account by its number
C24_Witness ==
    /\ cres.op = "get_meter"
    /\ cres.meter_no.is_int
    /\ cres.meter_no.n = 12
    /\ Len(cres.meters) = 2
    /\ cres.meters[1].no # <<"1", "2">>
    /\ cres.raised = "none"
    /\ cres.result = cres.meters[2]

----------------------------------------------------------------------------
(* Claims about the tariffs *)

\* the tier invariant: ascending lower bounds, every upper bound equal to the
\* next lower bound, the last upper bound unbounded, the first tier from 0
TierInvariant(tariff) ==
    /\ \A i \in 1..(Len(tariff) - 1) :
           /\ tariff[i].lower < tariff[i + 1].lower
           /\ tariff[i].upper = tariff[i + 1].lower
    /\ tariff[Len(tariff)].upper = Inf
    /\ tariff[1].lower = 0

\* C25: the tariff configured for a meter (ELECTRIC_TARIFF, WATER_TARIFF)
\* satisfies the tier invariant: tiers sorted ascending by lower bound, each
\* upper bound equal to the next lower bound (no gap, no overlap), the last
\* upper bound unbounded, and some tier covers the consumption charged,
\* whatever it is from 0 upward.
C25_TariffsAreGapless ==
    (cres.op = "calculate_total_cost" /\ cres.tariff # << >>) =>
        /\ TierInvariant(cres.tariff)
        /\ \E i \in 1..Len(cres.tariff) :
               /\ cres.tariff[i].lower <= cres.total_consumption
               /\ \/ cres.tariff[i].upper = Inf
                  \/ cres.total_consumption <= cres.tariff[i].upper

----------------------------------------------------------------------------
(* Claims about the exchanges of a fetch *)

\* the methods of the exchanges the last fetch made, in order
SentMethods == [i \in 1..Len(last.sent) |-> last.sent[i].method]

----------------------------------------------------------------------------
(* Claims about the exchanges of the session client *)

\* C27: in every get and post that received a response, whatever its status,
\* the response's hidden fields are merged into the store before the call
\* returns or raises, and the form data a post sends holds the hidden state
\* stored when it was called.
C27_EveryExchangeIsMerged ==
    [][(ops' = ops + 1 /\ cres'.op \in {"get", "post"}
            /\ cres'.response # NetworkError) =>
           /\ asp_state' = _extract_asp_state(asp_state, cres'.response)
           /\ cres'.op = "post" =>
                  \A k \in DOMAIN asp_state : k \in DOMAIN wire'[1].data]_vars

\* the hops of the history of the last signature loop whose URL has a Sig
\* parameter
SigHops == {i \in 1..Len(cres.history) : SigParams(cres.history[i]) # {}}

\* C28: when hops of the login response's history contain 'Sig=', the
\* signature used for the session-establishment URL is the value of the Sig
\* parameter of the last such hop, not that of an earlier hop and not the text
\* of a later parameter of the URL.
C28_SigOfLastHop ==
    (cres.op = "sig_loop" /\ SigHops # {}) =>
        LET url == cres.history[SetMax(SigHops)]
        IN  cres.result = url[SetMax(SigParams(url))].value

----------------------------------------------------------------------------
(* Claims about the steps of the earliest-date finder *)

\* the probe of the finder's current round finds data
ProbeFindsData ==
    DOMAIN fetch_hourly_consumptions(hourly_consumptions, finder.date, now,
                                     PortalRows(finder.date)).result # {}

\* C29: every round of the finder's loop takes exactly one of three steps
\* according to its probe: data found - the step is doubled and the probe
\* moves into the past by the new step; none found and the step is 1 day -
\* probe + step is recorded as the earliest date and the search ends; none
\* found and the step is more than 1 day - the probe moves forward by the step
\* and the step is then divided by 4.  The step starts at 1 day.
C29_OneOfThreeSteps ==
    [][/\ (finder.pc = "idle" /\ finder'.pc \in {"scan", "loop"}) =>
              finder'.step = MinutesPerDay
       /\ (finder.pc = "loop" /\ finder' # finder) =>
              \/ /\ ProbeFindsData
                 /\ finder'.pc = "loop"
                 /\ finder'.step = 2 * finder.step
                 /\ finder'.date = finder.date - finder'.step
                 /\ UNCHANGED earliest_consumption_date
              \/ /\ ~ProbeFindsData
                 /\ finder.step = MinutesPerDay
                 /\ finder'.pc = "idle"
                 /\ finder'.result = finder.date + finder.step
                 /\ earliest_consumption_date' = finder.date + finder.step
              \/ /\ ~ProbeFindsData
                 /\ finder.step > MinutesPerDay
                 /\ finder'.date = finder.date + finder.step
                 /\ 4 * finder'.step = finder.step
                 /\ UNCHANGED earliest_consumption_date]_vars

\* the whole part of log2(n), n >= 1
RECURSIVE Log2(_)
Log2(n) == IF n < 2 THEN 0 ELSE 1 + Log2(n \div 2)

\* C30: for a contiguous history of n days ending today, the probes (calls of
\* fetch_hourly_consumptions) find_earliest_consumption_date makes before it
\* returns number at most 6 * log2(n) + 8: a constant multiple of log2(n)
\* plus a constant, not proportional to n.
C30_ProbesLogarithmic ==
    (finder.pc = "idle" /\ finder.raised = "none" /\ finder.probes > 0) =>
        finder.probes <= 6 * Log2(portal_data.run) + 8

\* a search over a history of 64 days returned after fewer than half as many
\* probes
C30_Witness ==
    /\ finder.pc = "idle"
    /\ finder.raised = "none"
    /\ finder.result # NoDate
    /\ portal_data.run = 64
    /\ finder.probes > 0
    /\ 2 * finder.probes < 64

\* C31: the range of the daily payload starts on the first day of the month
\* of the requested date and ends in that month, on yesterday when the month
\* is the current one and on the month's last day otherwise; the start is not
\* after the end.
C31_RangeInRequestedMonth ==
    cres.op = "build_daily_payload" =>
        LET month == MonthOf(cres.date)
            payload == cres.payload
        IN  /\ payload.cboDateFrom = [dd |-> 1, mm |-> month]
            /\ MonthOf(payload.from_state) = month
            /\ DayOfMonth(payload.from_state) = 1
            /\ payload.cboDateTo.mm = month
            /\ MonthOf(payload.to_state) = month
            /\ payload.cboDateTo.dd =
                   IF month = MonthOf(cres.now)
                   THEN DayOfMonth(cres.now) - 1
                   ELSE MonthDays[month]
            /\ DayOf(payload.from_state) <= DayOf(payload.to_state)

\* C32: parsing a page that has no data rows raises nothing and gives the
\* empty result, for the hourly and the daily parser, with or without the
\* error-message element, an error message or the report table.
C32_NoRowsIsEmptyResult ==
    (/\ cres.op \in {"parse_hourly", "parse_daily"}
     /\ cres.page.table.rows = << >>) =>
        /\ cres.raised = "none"
        /\ cres.result = << >>

\* C33: every POST of a fetch carries, for each stored hidden-state key the
\* caller did not set in its payload, the value stored at the time of sending.
C33_PostsCarryLatestState ==
    cres.op \in {"fetch_hourly", "fetch_daily"} =>
        \A i \in DOMAIN wire :
            wire[i].method = "POST" =>
                \A k \in DOMAIN cres.stores[i] \ DOMAIN cres.payload :
                    /\ k \in DOMAIN wire[i].data
                    /\ wire[i].data[k] = cres.stores[i][k]

\* C34: when a search of find_earliest_consumption_date returns the date D, a
\* probe of that search found data for the day of D and a probe found none
\* for the day before; D is not later than today.
C34_ReturnedDayWasProbed ==
    (finder.pc = "idle" /\ finder.raised = "none" /\ finder.probes > 0) =>
        /\ DayOf(finder.result) \in finder.found
        /\ DayOf(finder.result) - 1 \in finder.none
        /\ DayOf(finder.result) <= DayOf(now)

\* the steps the search may take: half a day, or a power of two of days
RECURSIVE StepIsPowerOfTwo(_)
StepIsPowerOfTwo(step) ==
    \/ step = MinutesPerDay \div 2
    \/ step = MinutesPerDay
    \/ step > MinutesPerDay /\ step % 2 = 0 /\ StepIsPowerOfTwo(step \div 2)

\* C35: on every current date and every finite history the search of
\* find_earliest_consumption_date, sync and async, ends by returning a date
\* and raises no exception; while it runs every probe is of a whole calendar
\* day and the step is a power of two no smaller than 1/2.
C35_SearchReturnsWithoutRaising ==
    /\ finder.raised = "none"
    /\ finder.pc \in {"scan", "loop"} =>
           /\ finder.date % MinutesPerDay = 0
           /\ StepIsPowerOfTwo(finder.step)

\* C36: a fetch made right after a fetch of the same period returned a
\* non-empty series, and within the refresh interval of it, is answered from
\* the cache and makes no exchange.
C36_RepeatedFetchIsCached ==
    [][(/\ ops' = ops + 1
        /\ last.op \in {"fetch_hourly", "fetch_daily"}
        /\ last'.op = last.op
        /\ last'.date = last.date
        /\ last'.at - last.at < refresh_interval
        /\ DOMAIN last.result # {}) =>
           /\ last'.hit
           /\ last'.exchanges = 0
           /\ last'.raised = "none"]_vars

\* C37: given the same operation, clock and portal response, USMSMeter and
\* AsyncUSMSMeter return the same series from fetch_hourly_consumptions and
\* end with the same cached hourly series.
C37_SyncAsyncAgree ==
    cres.op = "fetch_both" =>
        /\ cres.sync.result = cres.async.result
        /\ cres.sync.cache = cres.async.cache

\* the last step was a call of refresh_data or check_update_and_refresh
RefreshStep ==
    /\ rlast'.n = rlast.n + 1
    /\ rlast'.op \in {"refresh_data", "check_update_and_refresh"}

C39_ProbeRestoresAuth ==
    [][(ops' = ops + 1 /\ cres'.op = "is_authenticated") =>
          /\ auth' = auth
          /\ auth' # "None"
          /\ \A i \in DOMAIN wire' : wire'[i].auth = "None"]_vars

\* a probe whose response did not decode raised, and the auth is back
C39_Witness ==
    /\ cres.op = "is_authenticated"
    /\ cres.raised = "UnicodeDecodeError"
    /\ Len(wire) = 1
    /\ wire[1].auth = "None"
    /\ auth = "usms_auth"

\* C40: in the sync and the async account, log_in returns True exactly when
\* the probe made after its GET reports the session authenticated, and
\* log_out returns True exactly when the probe made after the cookies were
\* cleared reports it not authenticated.
C40_ResultFollowsProbe ==
    (cres.op \in {"log_in", "log_out"} /\ cres.raised = "none") =>
        /\ cres.probed \in {"True", "False"}
        /\ Len(wire) = 2
        /\ cres.op = "log_in" => (cres.result = "True" <=> cres.probed = "True")
        /\ cres.op = "log_out" => (cres.result = "True" <=> cres.probed = "False")

====
